---- MODULE Spec2Model ----
(***************************************************************************)
(* Inventory accounting core of tradeflow-core:                            *)
(*   - the inventory ledger and its projection (inventoryService.ts),      *)
(*   - the inbound / outbound CRUD handlers that drive it,                 *)
(*   - the FIFO cost matcher (AnalysisQueries.calculateFIFOData).          *)
(* Quantities are integers; money is counted in mills (1/1000 of the       *)
(* currency unit) so that rounding to two decimals is not the identity.    *)
(***************************************************************************)
EXTENDS Integers, Sequences, FiniteSets, Bags, TLC

\* ------------------------------------------------------------------ bounds
MaxInId == 2        \* inbound records ever created (autoincrement ids 1..MaxInId)
MaxOutId == 1       \* outbound records ever created (autoincrement ids 1..MaxOutId)
MaxQty == 1         \* largest quantity a request carries
MaxFail == 1        \* transactions that fail (storage errors) in one run
MaxRaceId == 1      \* records of each kind created while requests interleave

Slots == {1, 2}     \* requests in flight at the same time
Models == {"X", "Y"}
NoModel == ""       \* product_model null or '' : falsy in `!record.product_model`
ModelInputs == Models \cup {NoModel}
\* 0 stands for both 0 and null (`!record.quantity` is true of either);
\* a negative quantity is truthy and passes the guard.
RecordData == [product_model : ModelInputs, quantity : 0..MaxQty]
                \cup {[product_model |-> "X", quantity |-> -1]}
\* the bodies that concurrent requests carry
RaceData == [product_model : Models, quantity : 1..MaxQty]
Kinds == {"INBOUND", "OUTBOUND"}

VARIABLES
  inbound,      \* table inbound_records : id -> [product_model, quantity]
  outbound,     \* table outbound_records: id -> [product_model, quantity]
  nextInId,     \* autoincrement of inbound_records.id
  nextOutId,    \* autoincrement of outbound_records.id
  ledger,       \* table inventory_ledger, a bag of rows (the row id is dropped)
  inventory,    \* table inventory: product_model -> quantity, one row per key
  req,          \* per slot: the request being handled and where its handler is
  failures,     \* transactions that have failed so far
  \* --- calculateFIFOData(startDate, endDate)
  inRows,           \* inbound_records as the matcher reads them: id -> row with price and date
  outRows,          \* outbound_records as the matcher reads them
  startDate,        \* the requested window
  endDate,
  allInbound,       \* result of the inbound query
  allOutbound,      \* result of the outbound query
  inventoryState,   \* product_model -> queue of batches
  processedRecords, \* the list the call returns
  idx,              \* position of the outer loop in allOutbound
  qtyToFulfill,
  currentRecordCost,
  fpc,              \* where the call is: fetch, seed, next, consume, done
  lastCall,         \* how many calls have returned, and what the last one returned
  iterations,       \* iterations of the while loop run for the current outbound record
  \* --- two inventoryService transactions running statement by statement
  txn,              \* per transaction: its call, position, locals, pending writes, row locks
  inventory0,       \* the inventory table when the two transactions started
  \* --- decimalCalc.divide(a, b)
  division,         \* the two arguments and how the call ended
  \* --- getCustomerAnalysisData / getProductAnalysisData
  analysis          \* which of the two have returned, and the groups they returned

ledgerVars == <<inbound, outbound, nextInId, nextOutId, ledger, inventory, req, failures>>
fifoVars == <<inRows, outRows, startDate, endDate, allInbound, allOutbound, inventoryState,
              processedRecords, idx, qtyToFulfill, currentRecordCost, fpc, lastCall, iterations>>
concVars == <<txn, inventory0>>
calcVars == <<division, analysis>>
vars == <<ledgerVars, fifoVars, concVars, calcVars>>

\* ------------------------------------------------------- database statements
RECURSIVE SumQty(_, _)
\* SELECT SUM(change_qty) over the rows of bag l that satisfy the row set S
SumQty(l, S) ==
  IF S = {} THEN 0
  ELSE LET r == CHOOSE x \in S : TRUE
       IN  r.change_qty * CopiesIn(r, l) + SumQty(l, S \ {r})

LedgerSum(l, m) == SumQty(l, {r \in BagToSet(l) : r.product_model = m})

\* tx.inventoryLedger.create({data})
LedgerCreate(l, row) == l (+) SetToBag({row})

\* tx.inventoryLedger.findMany({where: {reference_id, change_type}}): the matching
\* rows, one per copy, in some order
RECURSIVE BagToSeq(_)
BagToSeq(b) ==
  IF BagToSet(b) = {} THEN <<>>
  ELSE LET r == CHOOSE x \in BagToSet(b) : TRUE
       IN  <<r>> \o BagToSeq(b (-) SetToBag({r}))

Matching(l, id, type) ==
  LET S == {r \in BagToSet(l) : r.reference_id = id /\ r.change_type = type}
  IN  [r \in S |-> CopiesIn(r, l)]

LedgerFindMany(l, id, type) == BagToSeq(Matching(l, id, type))

\* (mutant) deleteMany that filters on reference_id alone
LedgerDeleteManyAnyType(l, id, type) ==
  l (-) [r \in {x \in BagToSet(l) : x.reference_id = id} |-> CopiesIn(r, l)]

\* tx.inventoryLedger.deleteMany({where: {reference_id, change_type}})
LedgerDeleteMany(l, id, type) == l (-) Matching(l, id, type)

\* (mutant) update: {quantity: d}: the row is overwritten, not incremented
UpsertSet(inv, m, d) ==
  IF m \in DOMAIN inv THEN [inv EXCEPT ![m] = d] ELSE inv @@ (m :> d)

\* tx.inventory.upsert({where: {product_model: m},
\*                      update: {quantity: {increment: d}}, create: {quantity: d}})
UpsertIncrement(inv, m, d) ==
  IF m \in DOMAIN inv THEN [inv EXCEPT ![m] = @ + d] ELSE inv @@ (m :> d)

\* (mutant) the revert adds the quantity again
UpsertDecrementAdds(inv, m, q) ==
  IF m \in DOMAIN inv THEN [inv EXCEPT ![m] = @ + q] ELSE inv @@ (m :> q)

\* tx.inventory.upsert({where: {product_model: m},
\*                      update: {quantity: {decrement: q}}, create: {quantity: -q}})
UpsertDecrement(inv, m, q) ==
  IF m \in DOMAIN inv THEN [inv EXCEPT ![m] = @ - q] ELSE inv @@ (m :> (0 - q))

\* (mutant) only the product is tested
TruthyModelOnly(record) == record.product_model # NoModel

Truthy(record) == record.product_model # NoModel /\ record.quantity # 0

LedgerRow(m, q, type, id) ==
  [product_model |-> m, change_qty |-> q, change_type |-> type, reference_id |-> id]

\* ------------------------------------------- inventoryService, one transaction
\* each; db is [ledger, inventory] and the result is the committed db
Db(l, inv) == [ledger |-> l, inventory |-> inv]

OnInboundCreate(db, record) ==
  IF ~Truthy(record) THEN db
  ELSE Db(LedgerCreate(db.ledger,
                       LedgerRow(record.product_model, record.quantity, "INBOUND", record.id)),
          UpsertIncrement(db.inventory, record.product_model, record.quantity))

\* (mutant) the outbound event and increment carry +quantity
OnOutboundCreateUnsigned(db, record) ==
  IF record.product_model = NoModel \/ record.quantity = 0 THEN db
  ELSE Db(LedgerCreate(db.ledger,
                       LedgerRow(record.product_model, record.quantity, "OUTBOUND", record.id)),
          UpsertIncrement(db.inventory, record.product_model, record.quantity))

OnOutboundCreate(db, record) ==
  IF ~Truthy(record) THEN db
  ELSE LET changeQty == 0 - record.quantity
       IN  Db(LedgerCreate(db.ledger,
                           LedgerRow(record.product_model, changeQty, "OUTBOUND", record.id)),
              UpsertIncrement(db.inventory, record.product_model, changeQty))

\* (mutant) the loop over the entries is skipped
RevertEntriesNone(inv, entries) == inv

RECURSIVE RevertEntries(_, _)
\* for (const entry of entries) upsert decrement entry.change_qty
RevertEntries(inv, entries) ==
  IF entries = <<>> THEN inv
  ELSE RevertEntries(UpsertDecrement(inv, Head(entries).product_model, Head(entries).change_qty),
                     Tail(entries))

\* (mutant) the ledger rows are deleted without reverting the inventory
OnInboundDeleteNoRevert(db, id) == Db(LedgerDeleteMany(db.ledger, id, "INBOUND"), db.inventory)

OnInboundDelete(db, id) ==
  LET entries == LedgerFindMany(db.ledger, id, "INBOUND")
  IN  Db(LedgerDeleteMany(db.ledger, id, "INBOUND"), RevertEntries(db.inventory, entries))

OnOutboundDelete(db, id) ==
  LET entries == LedgerFindMany(db.ledger, id, "OUTBOUND")
  IN  Db(LedgerDeleteMany(db.ledger, id, "OUTBOUND"), RevertEntries(db.inventory, entries))

\* (mutant) no record is skipped
EventsOfAll(tbl, type, sign) ==
  SetToBag({LedgerRow(tbl[i].product_model, sign * tbl[i].quantity, type, i) : i \in DOMAIN tbl})

\* recalculateAll: the events of the eligible records, then the totals per model
EventsOf(tbl, type, sign) ==
  SetToBag({LedgerRow(tbl[i].product_model, sign * tbl[i].quantity, type, i) :
              i \in {j \in DOMAIN tbl : Truthy(tbl[j])}})

RecalculateAll(inb, outb) ==
  LET ledgerData == EventsOf(inb, "INBOUND", 1) (+) EventsOf(outb, "OUTBOUND", -1)
      models == {r.product_model : r \in BagToSet(ledgerData)}
      totals == [m \in models |-> LedgerSum(ledgerData, m)]
  IN  Db(ledgerData, totals)

\* return { processed_events: ledgerData.length, products_count: invData.length }
RecalculateStats(inb, outb) ==
  LET db == RecalculateAll(inb, outb)
  IN  [processed_events |-> BagCardinality(db.ledger),
       products_count |-> Cardinality(DOMAIN db.inventory)]

OnCreate(kind, db, record) ==
  IF kind = "INBOUND" THEN OnInboundCreate(db, record) ELSE OnOutboundCreate(db, record)

OnDelete(kind, db, id) ==
  IF kind = "INBOUND" THEN OnInboundDelete(db, id) ELSE OnOutboundDelete(db, id)

\* ------------------------------------------------------------ the handlers
\* A record as prisma returns it: the row with its id.
Rec(id, data) == [id |-> id, product_model |-> data.product_model, quantity |-> data.quantity]
NoRecord == [id |-> 0, product_model |-> NoModel, quantity |-> 0]
NoDb == Db(EmptyBag, <<>>)

NoStats == [processed_events |-> 0, products_count |-> 0]

\* trace: the slot keeps the arguments, the tables before the last transaction (pre) and
\* the value recalculateAll returned (stats) readable after the handler has answered
Idle == [pc |-> "idle", op |-> "none", status |-> "none", kind |-> "INBOUND", id |-> 0,
         oldRecord |-> NoRecord, result |-> NoRecord, wrote |-> FALSE, snap |-> NoDb,
         entries |-> 0, trace |-> FALSE, pre |-> NoDb, stats |-> NoStats]
Blank(s) == [Idle EXCEPT !.trace = req[s].trace]

Table(kind) == IF kind = "INBOUND" THEN inbound ELSE outbound
Committed == Db(ledger, inventory)

\* res.json(..) / res.status(..).json(..): the handler returns
\* (op, status and the number of ledger entries the last revert found stay readable)
Respond(s, op, status, n) ==
  req' = [req EXCEPT ![s] =
            IF req[s].trace /\ status # "notfound"
            THEN [(IF req[s].pc = "idle" THEN Blank(s) ELSE req[s])
                    EXCEPT !.pc = "idle", !.op = op, !.status = status, !.entries = n,
                           !.pre = Committed,
                           !.stats = IF op = "refresh" /\ status = "ok"
                                     THEN RecalculateStats(inbound, outbound) ELSE NoStats]
            ELSE [Blank(s) EXCEPT !.op = op, !.status = status, !.entries = n]]

EntriesFound(s, id) == Len(LedgerFindMany(ledger, id, req[s].kind))

Commit(db) == ledger' = db.ledger /\ inventory' = db.inventory /\ failures' = failures

\* prisma.$transaction rejects (a storage error): nothing of it is committed
Rollback == ledger' = ledger /\ inventory' = inventory /\ failures' = failures + 1
CanFail(fail) == fail => failures < MaxFail

\* POST /: prisma.<kind>Record.create, committed on its own
PostRecord(s, kind, data, inLimit, outLimit) ==
  /\ req[s].pc = "idle"
  /\ IF kind = "INBOUND"
     THEN /\ nextInId <= inLimit
          /\ inbound' = inbound @@ (nextInId :> data)
          /\ nextInId' = nextInId + 1
          /\ UNCHANGED <<outbound, nextOutId>>
     ELSE /\ nextOutId <= outLimit
          /\ outbound' = outbound @@ (nextOutId :> data)
          /\ nextOutId' = nextOutId + 1
          /\ UNCHANGED <<inbound, nextInId>>
  /\ LET id == IF kind = "INBOUND" THEN nextInId ELSE nextOutId
     IN  req' = [req EXCEPT ![s] = [Blank(s) EXCEPT !.pc = "onCreate", !.op = "post", !.kind = kind,
                                                !.id = id, !.result = Rec(id, data),
                                                !.wrote = TRUE]]
  /\ UNCHANGED <<ledger, inventory, failures, fifoVars, concVars, calcVars>>

\* POST /: await inventoryService.on<Kind>Create(result); a failing transaction
\* rolls back and the handler answers 500
PostService(s, fail) ==
  /\ req[s].pc = "onCreate"
  /\ CanFail(fail)
  /\ fail => Truthy(req[s].result)
  /\ IF fail THEN Rollback /\ Respond(s, "post", "failed", 0)
     ELSE Commit(OnCreate(req[s].kind, Committed, req[s].result)) /\ Respond(s, "post", "ok", 0)
  /\ UNCHANGED <<inbound, outbound, nextInId, nextOutId, fifoVars, concVars, calcVars>>

\* PUT /:id: findUnique; 404 when the record does not exist
PutFind(s, kind, id, data) ==
  /\ req[s].pc = "idle"
  /\ IF id \in DOMAIN Table(kind)
     THEN req' = [req EXCEPT ![s] = [Blank(s) EXCEPT !.pc = "update", !.op = "put", !.kind = kind,
                                                 !.id = id,
                                                 !.oldRecord = Rec(id, Table(kind)[id]),
                                                 !.result = Rec(id, data)]]
     ELSE Respond(s, "put", "notfound", 0)
  /\ UNCHANGED <<inbound, outbound, nextInId, nextOutId, ledger, inventory, failures, fifoVars, concVars, calcVars>>

\* PUT /:id: prisma.<kind>Record.update, committed on its own; P2025 -> 404
PutUpdate(s) ==
  /\ req[s].pc = "update"
  /\ LET kind == req[s].kind
         id == req[s].id
         data == [product_model |-> req[s].result.product_model,
                  quantity |-> req[s].result.quantity]
     IN  IF id \in DOMAIN Table(kind)
         THEN /\ inbound' = IF kind = "INBOUND" THEN [inbound EXCEPT ![id] = data] ELSE inbound
              /\ outbound' = IF kind = "OUTBOUND" THEN [outbound EXCEPT ![id] = data] ELSE outbound
              /\ req' = [req EXCEPT ![s].pc = "revert", ![s].wrote = TRUE, ![s].snap = Committed]
         ELSE /\ UNCHANGED <<inbound, outbound>>
              /\ Respond(s, "put", "notfound", 0)
  /\ UNCHANGED <<nextInId, nextOutId, ledger, inventory, failures, fifoVars, concVars, calcVars>>

\* on<Kind>Update, first call: await this.on<Kind>Delete(oldRecord.id)
PutRevert(s, fail) ==
  /\ req[s].pc = "revert"
  /\ CanFail(fail)
  /\ IF fail THEN Rollback /\ Respond(s, "put", "failed", 0)
     ELSE /\ Commit(OnDelete(req[s].kind, Committed, req[s].oldRecord.id))
          /\ req' = [req EXCEPT ![s].pc = "reapply",
                                ![s].entries = EntriesFound(s, req[s].oldRecord.id)]
  /\ UNCHANGED <<inbound, outbound, nextInId, nextOutId, fifoVars, concVars, calcVars>>

\* on<Kind>Update, second call: await this.on<Kind>Create(newRecord)
PutReapply(s, fail) ==
  /\ req[s].pc = "reapply"
  /\ CanFail(fail)
  /\ fail => Truthy(req[s].result)
  /\ IF fail THEN Rollback /\ Respond(s, "put", "failed", req[s].entries)
     ELSE /\ Commit(OnCreate(req[s].kind, Committed, req[s].result))
          /\ Respond(s, "put", "ok", req[s].entries)
  /\ UNCHANGED <<inbound, outbound, nextInId, nextOutId, fifoVars, concVars, calcVars>>

Without(tbl, id) == [i \in DOMAIN tbl \ {id} |-> tbl[i]]

\* DELETE /:id: prisma.<kind>Record.delete, committed on its own; P2025 -> 404
DeleteRecord(s, kind, id) ==
  /\ req[s].pc = "idle"
  /\ IF id \in DOMAIN Table(kind)
     THEN /\ inbound' = IF kind = "INBOUND" THEN Without(inbound, id) ELSE inbound
          /\ outbound' = IF kind = "OUTBOUND" THEN Without(outbound, id) ELSE outbound
          /\ req' = [req EXCEPT ![s] = [Blank(s) EXCEPT !.pc = "onDelete", !.op = "delete",
                                                    !.kind = kind, !.id = id, !.wrote = TRUE]]
     ELSE /\ UNCHANGED <<inbound, outbound>>
          /\ Respond(s, "delete", "notfound", 0)
  /\ UNCHANGED <<nextInId, nextOutId, ledger, inventory, failures, fifoVars, concVars, calcVars>>

\* DELETE /:id: await inventoryService.on<Kind>Delete(id)
DeleteService(s, fail) ==
  /\ req[s].pc = "onDelete"
  /\ CanFail(fail)
  /\ IF fail THEN Rollback /\ Respond(s, "delete", "failed", 0)
     ELSE /\ Commit(OnDelete(req[s].kind, Committed, req[s].id))
          /\ Respond(s, "delete", "ok", EntriesFound(s, req[s].id))
  /\ UNCHANGED <<inbound, outbound, nextInId, nextOutId, fifoVars, concVars, calcVars>>

\* POST /api/inventory/refresh: inventoryService.recalculateAll(), one transaction
Refresh(s, fail) ==
  /\ req[s].pc = "idle"
  /\ CanFail(fail)
  /\ IF fail THEN Rollback /\ Respond(s, "refresh", "failed", 0)
     ELSE Commit(RecalculateAll(inbound, outbound)) /\ Respond(s, "refresh", "ok", 0)
  /\ UNCHANGED <<inbound, outbound, nextInId, nextOutId, fifoVars, concVars, calcVars>>

Ids(kind) == IF kind = "INBOUND" THEN 1..MaxInId ELSE 1..MaxOutId

\* every step one slot's handler can take
Handle(s, fail, Data, inLimit, outLimit) ==
  \/ \E kind \in Kinds, data \in Data : PostRecord(s, kind, data, inLimit, outLimit)
  \/ PostService(s, fail)
  \/ \E kind \in Kinds : \E id \in Ids(kind), data \in Data : PutFind(s, kind, id, data)
  \/ PutUpdate(s)
  \/ PutRevert(s, fail)
  \/ PutReapply(s, fail)
  \/ \E kind \in Kinds : \E id \in Ids(kind) : DeleteRecord(s, kind, id)
  \/ DeleteService(s, fail)
  \/ Refresh(s, fail)

\* no analysis request is being served
FifoOff ==
  /\ inRows = <<>> /\ outRows = <<>> /\ startDate = 1 /\ endDate = 1
  /\ allInbound = <<>> /\ allOutbound = <<>> /\ inventoryState = <<>>
  /\ processedRecords = <<>> /\ idx = 1 /\ qtyToFulfill = 0 /\ currentRecordCost = 0
  /\ fpc = "fetch"
  /\ lastCall = [calls |-> 0, records |-> <<>>]
  /\ iterations = 0

TxOff == [op |-> "none", kind |-> "INBOUND", record |-> NoRecord, tpc |-> "done", entries |-> <<>>,
          k |-> 1, locks |-> {}, pendAdd |-> EmptyBag, pendDel |-> EmptyBag, pendUps |-> <<>>,
          overlap |-> FALSE, work |-> NoDb, inbounds |-> <<>>, outbounds |-> <<>>]
Txs == {1, 2}
ConcOff == txn = [t \in Txs |-> TxOff] /\ inventory0 = <<>>

\* decimalCalc.divide has not been called; no analysis has been asked for
NoInput == [t |-> "undefined"]
DivisionOff == division = [a |-> NoInput, b |-> NoInput, outcome |-> [status |-> "none"]]
NoAnalysis == [called |-> {}, customers |-> <<>>, products |-> <<>>]
AnalysisOff == analysis = NoAnalysis
CalcOff == DivisionOff /\ AnalysisOff

LedgerInit ==
  /\ inbound = <<>> /\ outbound = <<>>
  /\ nextInId = 1 /\ nextOutId = 1
  /\ ledger = EmptyBag /\ inventory = <<>>
  /\ req = [s \in Slots |-> Idle]
  /\ failures = 0

Init == LedgerInit /\ FifoOff /\ ConcOff /\ CalcOff

\* one request at a time, any transaction may fail
Next == \E fail \in BOOLEAN : Handle(1, fail, RecordData, MaxInId, MaxOutId)
Spec == Init /\ [][Next]_vars

\* one request at a time, no transaction fails
NextReliable == Handle(1, FALSE, RecordData, MaxInId, MaxOutId)
SpecReliable == Init /\ [][NextReliable]_vars

\* one request at a time, no transaction fails; the slot keeps what the last call was
\* given and what it started from
InitService ==
  /\ inbound = <<>> /\ outbound = <<>>
  /\ nextInId = 1 /\ nextOutId = 1
  /\ ledger = EmptyBag /\ inventory = <<>>
  /\ req = [s \in Slots |-> [Idle EXCEPT !.trace = TRUE]]
  /\ failures = 0
  /\ FifoOff /\ ConcOff /\ CalcOff
NextService == Handle(1, FALSE, RecordData, MaxInId, MaxOutId)
SpecService == InitService /\ [][NextService]_vars

\* the create and update requests (POST, PUT) of all slots interleave, transaction by
\* transaction; nothing is deleted or rebuilt and no transaction fails
HandleWrite(s, Data, inLimit, outLimit) ==
  \/ \E kind \in Kinds, data \in Data : PostRecord(s, kind, data, inLimit, outLimit)
  \/ PostService(s, FALSE)
  \/ \E kind \in Kinds : \E id \in Ids(kind), data \in Data : PutFind(s, kind, id, data)
  \/ PutUpdate(s)
  \/ PutRevert(s, FALSE)
  \/ PutReapply(s, FALSE)
NextWriteRace == \E s \in Slots : HandleWrite(s, RaceData, MaxRaceId, MaxRaceId)
SpecWriteRace == Init /\ [][NextWriteRace]_vars

\* one inbound and one outbound record exist with their events; the update and delete
\* requests (PUT, DELETE) of all slots interleave, transaction by transaction
InitExisting ==
  /\ inbound \in [1..1 -> RaceData] /\ outbound \in [1..1 -> RaceData]
  /\ nextInId = 2 /\ nextOutId = 2
  /\ ledger = RecalculateAll(inbound, outbound).ledger
  /\ inventory = RecalculateAll(inbound, outbound).inventory
  /\ req = [s \in Slots |-> Idle]
  /\ failures = 0
  /\ FifoOff /\ ConcOff /\ CalcOff
HandleChange(s, Data) ==
  \/ \E kind \in Kinds : \E id \in Ids(kind), data \in Data : PutFind(s, kind, id, data)
  \/ PutUpdate(s)
  \/ PutRevert(s, FALSE)
  \/ PutReapply(s, FALSE)
  \/ \E kind \in Kinds : \E id \in Ids(kind) : DeleteRecord(s, kind, id)
  \/ DeleteService(s, FALSE)
NextChangeRace == \E s \in Slots : HandleChange(s, RaceData)
SpecChangeRace == InitExisting /\ [][NextChangeRace]_vars

\* record requests one at a time in slot 1, while the refresh endpoint may be served
\* (slot 2) between any two of their steps; no transaction fails
NextRebuildRace == Handle(1, FALSE, RaceData, MaxInId, MaxOutId) \/ Refresh(2, FALSE)
SpecRebuildRace == Init /\ [][NextRebuildRace]_vars

\* ------------------------------ two service transactions, statement by statement
\* Each statement of a prisma.$transaction callback is one step.  Rows a transaction
\* inserts or deletes are invisible to the other until it commits; an upsert holds the
\* lock of its inventory row until commit, and a second upsert of that row waits for it.
MaxBase == 2        \* inbound records whose events are in the ledger at the start

RECURSIVE ApplyUpserts(_, _)
\* the pending upserts of a transaction take effect at commit
ApplyUpserts(inv, ups) ==
  IF ups = <<>> THEN inv
  ELSE LET u == Head(ups)
       IN  ApplyUpserts(IF u.dec THEN UpsertDecrement(inv, u.m, u.q)
                        ELSE UpsertIncrement(inv, u.m, u.q), Tail(ups))

LockFree(t, m) == \A u \in Txs \ {t} : m \notin txn[u].locks
Mine(t) == LedgerFindMany(ledger, txn[t].record.id, txn[t].kind)

\* on<Kind>Create: if (!record.product_model || !record.quantity) return;
\* on<Kind>Delete: the transaction starts
TxBegin(t) ==
  /\ txn[t].tpc = "begin"
  /\ txn' = [txn EXCEPT ![t].tpc = IF txn[t].op = "delete" THEN "find"
                                   ELSE IF Truthy(txn[t].record) THEN "insert" ELSE "done"]
  /\ UNCHANGED <<ledgerVars, fifoVars, inventory0, calcVars>>

\* (mutant) the insert is committed on its own, outside the transaction
TxLedgerCreateAutocommit(t) ==
  /\ txn[t].tpc = "insert"
  /\ LET r == txn[t].record
         changeQty == IF txn[t].kind = "INBOUND" THEN r.quantity ELSE 0 - r.quantity
     IN  ledger' = LedgerCreate(ledger, LedgerRow(r.product_model, changeQty, txn[t].kind, r.id))
  /\ txn' = [txn EXCEPT ![t].tpc = "upsert"]
  /\ UNCHANGED <<inbound, outbound, nextInId, nextOutId, inventory, req, failures, fifoVars,
                 inventory0, calcVars>>

\* tx.inventoryLedger.create
TxLedgerCreate(t) ==
  /\ txn[t].tpc = "insert"
  /\ LET r == txn[t].record
         changeQty == IF txn[t].kind = "INBOUND" THEN r.quantity ELSE 0 - r.quantity
     IN  txn' = [txn EXCEPT ![t].pendAdd = LedgerCreate(@, LedgerRow(r.product_model, changeQty,
                                                                     txn[t].kind, r.id)),
                            ![t].tpc = "upsert"]
  /\ UNCHANGED <<ledgerVars, fifoVars, inventory0, calcVars>>

\* tx.inventory.upsert({update: {quantity: {increment}}, create})
TxUpsert(t) ==
  /\ txn[t].tpc = "upsert"
  /\ LET r == txn[t].record
         changeQty == IF txn[t].kind = "INBOUND" THEN r.quantity ELSE 0 - r.quantity
     IN  /\ LockFree(t, r.product_model)
         /\ txn' = [txn EXCEPT ![t].pendUps = Append(@, [m |-> r.product_model, q |-> changeQty,
                                                         dec |-> FALSE]),
                               ![t].locks = @ \cup {r.product_model},
                               ![t].tpc = "commit"]
  /\ UNCHANGED <<ledgerVars, fifoVars, inventory0, calcVars>>

\* const entries = await tx.inventoryLedger.findMany(..)
TxFindMany(t) ==
  /\ txn[t].tpc = "find"
  /\ txn' = [txn EXCEPT ![t].entries = Mine(t), ![t].k = 1, ![t].tpc = "revert"]
  /\ UNCHANGED <<ledgerVars, fifoVars, inventory0, calcVars>>

\* for (const entry of entries) tx.inventory.upsert({update: {quantity: {decrement}}, create})
TxRevert(t) ==
  /\ txn[t].tpc = "revert"
  /\ txn[t].k <= Len(txn[t].entries)
  /\ LET entry == txn[t].entries[txn[t].k]
     IN  /\ LockFree(t, entry.product_model)
         /\ txn' = [txn EXCEPT ![t].pendUps = Append(@, [m |-> entry.product_model,
                                                         q |-> entry.change_qty, dec |-> TRUE]),
                               ![t].locks = @ \cup {entry.product_model},
                               ![t].k = @ + 1]
  /\ UNCHANGED <<ledgerVars, fifoVars, inventory0, calcVars>>

\* tx.inventoryLedger.deleteMany(..), after the loop
TxDeleteMany(t) ==
  /\ txn[t].tpc = "revert"
  /\ txn[t].k > Len(txn[t].entries)
  /\ txn' = [txn EXCEPT ![t].pendDel = Matching(ledger, txn[t].record.id, txn[t].kind),
                        ![t].tpc = "commit"]
  /\ UNCHANGED <<ledgerVars, fifoVars, inventory0, calcVars>>

\* the callback returns and prisma commits
TxCommit(t) ==
  /\ txn[t].tpc = "commit" /\ txn[t].op \in {"create", "delete"}
  /\ ledger' = (ledger (-) txn[t].pendDel) (+) txn[t].pendAdd
  /\ inventory' = ApplyUpserts(inventory, txn[t].pendUps)
  /\ txn' = [txn EXCEPT ![t].tpc = "done", ![t].locks = {},
                        ![t].overlap = \E u \in Txs \ {t} : txn[u].tpc \notin {"begin", "done"}]
  /\ UNCHANGED <<inbound, outbound, nextInId, nextOutId, req, failures, fifoVars, inventory0, calcVars>>

\* a statement or the commit throws: prisma rolls the transaction back, none of its
\* writes reaches the tables (what it had written stays readable in the slot)
TxFail(t) ==
  /\ txn[t].tpc \in {"insert", "upsert", "find", "revert", "commit"}
  /\ txn' = [txn EXCEPT ![t].tpc = "failed", ![t].locks = {}]
  /\ UNCHANGED <<ledgerVars, fifoVars, inventory0, calcVars>>

\* the records whose events are in the ledger at the start, and the two calls: a create
\* for a record its handler has just inserted, or a delete for one it has just deleted
ConcRecs == [product_model : Models, quantity : 1..MaxQty]
TxCall(op, kind, rec) == [TxOff EXCEPT !.op = op, !.kind = kind, !.record = rec, !.tpc = "begin"]

ConcInit ==
  \E nIn \in 0..MaxBase, nOut \in 0..1 :
    \E baseIn \in [1..nIn -> ConcRecs], baseOut \in [1..nOut -> ConcRecs] :
      \E op1, op2 \in {"create", "delete"}, k1, k2 \in Kinds, d1, d2 \in ConcRecs :
        \E i1 \in 1..(nIn + nOut + 1), i2 \in 1..(nIn + nOut + 2) :
          LET base(kind) == IF kind = "INBOUND" THEN baseIn ELSE baseOut
              \* a create takes the next id of its table; a delete names a base record
              r1 == IF op1 = "create" THEN Rec(Len(base(k1)) + 1, d1)
                    ELSE Rec(i1, IF i1 \in DOMAIN base(k1) THEN base(k1)[i1] ELSE d1)
              second == IF op1 = "create" /\ k1 = k2 THEN 2 ELSE 1
              r2 == IF op2 = "create" THEN Rec(Len(base(k2)) + second, d2)
                    ELSE Rec(i2, IF i2 \in DOMAIN base(k2) THEN base(k2)[i2] ELSE d2)
              db == RecalculateAll(baseIn, baseOut)
              after(kind) ==
                LET dels == {r.id : r \in {x \in {r1, r2} :
                               (x = r1 /\ op1 = "delete" /\ k1 = kind)
                                 \/ (x = r2 /\ op2 = "delete" /\ k2 = kind)}}
                    kept == [i \in DOMAIN base(kind) \ dels |-> base(kind)[i]]
                    add1 == IF op1 = "create" /\ k1 = kind
                            THEN (r1.id :> [product_model |-> r1.product_model,
                                            quantity |-> r1.quantity])
                            ELSE <<>>
                    add2 == IF op2 = "create" /\ k2 = kind
                            THEN (r2.id :> [product_model |-> r2.product_model,
                                            quantity |-> r2.quantity])
                            ELSE <<>>
                IN  kept @@ add1 @@ add2
          IN  /\ op1 = "delete" => i1 \in DOMAIN base(k1)
              /\ op2 = "delete" => i2 \in DOMAIN base(k2)
              /\ op1 = "create" => i1 = 1
              /\ op2 = "create" => i2 = 1
              /\ op1 = "delete" => d1 = CHOOSE d \in ConcRecs : TRUE
              /\ op2 = "delete" => d2 = CHOOSE d \in ConcRecs : TRUE
              \* two different records
              /\ ~(op1 = "delete" /\ op2 = "delete" /\ k1 = k2 /\ i1 = i2)
              /\ ledger = db.ledger /\ inventory = db.inventory /\ inventory0 = db.inventory
              /\ inbound = after("INBOUND") /\ outbound = after("OUTBOUND")
              /\ nextInId = Len(baseIn) + 1 + Cardinality({x \in {1, 2} :
                      (x = 1 /\ op1 = "create" /\ k1 = "INBOUND")
                        \/ (x = 2 /\ op2 = "create" /\ k2 = "INBOUND")})
              /\ nextOutId = Len(baseOut) + 1 + Cardinality({x \in {1, 2} :
                      (x = 1 /\ op1 = "create" /\ k1 = "OUTBOUND")
                        \/ (x = 2 /\ op2 = "create" /\ k2 = "OUTBOUND")})
              /\ txn = (1 :> TxCall(op1, k1, r1)) @@ (2 :> TxCall(op2, k2, r2))
              /\ req = [s \in Slots |-> Idle]
              /\ failures = 0

InitConc == ConcInit /\ FifoOff /\ CalcOff
NextConc ==
  \E t \in Txs : \/ TxBegin(t) \/ TxLedgerCreate(t) \/ TxUpsert(t)
                 \/ TxFindMany(t) \/ TxRevert(t) \/ TxDeleteMany(t) \/ TxCommit(t)
                 \/ TxFail(t)
SpecConc == InitConc /\ [][NextConc]_vars

\* --------------------------------- recalculateAll, statement by statement
\* The transaction works on its own view of the two tables (work); the tables other
\* readers see change only when it commits.  Slot 1 holds the /refresh request that
\* called it and the tables as they were when it was called.
MaxPrior == 2       \* inbound records the tables were last built from

\* (mutant) the statement runs outside the transaction
RbClearInventoryAutocommit(t) ==
  /\ txn[t].tpc = "clearInventory"
  /\ inventory' = <<>>
  /\ txn' = [txn EXCEPT ![t].work = Db(ledger, <<>>), ![t].tpc = "clearLedger"]
  /\ UNCHANGED <<inbound, outbound, nextInId, nextOutId, ledger, req, failures, fifoVars,
                 inventory0, calcVars>>

\* await tx.inventory.deleteMany({})
RbClearInventory(t) ==
  /\ txn[t].tpc = "clearInventory"
  /\ txn' = [txn EXCEPT ![t].work = Db(ledger, <<>>), ![t].tpc = "clearLedger"]
  /\ UNCHANGED <<ledgerVars, fifoVars, inventory0, calcVars>>

\* await tx.inventoryLedger.deleteMany({})
RbClearLedger(t) ==
  /\ txn[t].tpc = "clearLedger"
  /\ txn' = [txn EXCEPT ![t].work = Db(EmptyBag, @.inventory), ![t].tpc = "fetch"]
  /\ UNCHANGED <<ledgerVars, fifoVars, inventory0, calcVars>>

\* const inbounds = await tx.inboundRecord.findMany(..); const outbounds = ..
RbFetch(t) ==
  /\ txn[t].tpc = "fetch"
  /\ txn' = [txn EXCEPT ![t].inbounds = inbound, ![t].outbounds = outbound,
                        ![t].tpc = "insertLedger"]
  /\ UNCHANGED <<ledgerVars, fifoVars, inventory0, calcVars>>

\* the events timeline; if (ledgerData.length > 0) tx.inventoryLedger.createMany
RbInsertLedger(t) ==
  /\ txn[t].tpc = "insertLedger"
  /\ LET ledgerData == EventsOf(txn[t].inbounds, "INBOUND", 1)
                         (+) EventsOf(txn[t].outbounds, "OUTBOUND", -1)
     IN  txn' = [txn EXCEPT ![t].work = Db(@.ledger (+) ledgerData, @.inventory),
                            ![t].tpc = "insertInventory"]
  /\ UNCHANGED <<ledgerVars, fifoVars, inventory0, calcVars>>

\* totals per model; if (invData.length > 0) tx.inventory.createMany
RbInsertInventory(t) ==
  /\ txn[t].tpc = "insertInventory"
  /\ LET ledgerData == EventsOf(txn[t].inbounds, "INBOUND", 1)
                         (+) EventsOf(txn[t].outbounds, "OUTBOUND", -1)
         models == {r.product_model : r \in BagToSet(ledgerData)}
         totals == [m \in models |-> LedgerSum(ledgerData, m)]
     IN  txn' = [txn EXCEPT ![t].work = Db(@.ledger, @.inventory @@ totals),
                            ![t].tpc = "commit"]
  /\ UNCHANGED <<ledgerVars, fifoVars, inventory0, calcVars>>

\* the callback returns, prisma commits, the handler answers
RbCommit(t) ==
  /\ txn[t].tpc = "commit" /\ txn[t].op = "rebuild"
  /\ Commit(txn[t].work)
  /\ txn' = [txn EXCEPT ![t].tpc = "done"]
  /\ Respond(1, "refresh", "ok", 0)
  /\ UNCHANGED <<inbound, outbound, nextInId, nextOutId, fifoVars, inventory0, calcVars>>

\* a statement or the commit throws, or the 20 s timeout expires: the transaction is
\* rolled back and the handler answers 500
RbFail(t) ==
  /\ txn[t].op = "rebuild"
  /\ txn[t].tpc \in {"clearInventory", "clearLedger", "fetch", "insertLedger",
                     "insertInventory", "commit"}
  /\ Rollback
  /\ txn' = [txn EXCEPT ![t].tpc = "failed"]
  /\ Respond(1, "refresh", "failed", 0)
  /\ UNCHANGED <<inbound, outbound, nextInId, nextOutId, fifoVars, inventory0, calcVars>>

\* the record tables as they are now, and ledger and inventory as an earlier state of the
\* record tables left them (current, or stale after failed service calls)
PriorTables(n) == UNION {[1..k -> ConcRecs] : k \in 0..n}
NowTables(n) == UNION {[1..k -> RecordData] : k \in 0..n}

InitRebuild ==
  /\ inbound \in NowTables(MaxInId) /\ outbound \in NowTables(MaxOutId)
  /\ nextInId = Len(inbound) + 1 /\ nextOutId = Len(outbound) + 1
  /\ \E in0 \in PriorTables(MaxPrior), out0 \in PriorTables(1) :
       /\ ledger = RecalculateAll(in0, out0).ledger
       /\ inventory = RecalculateAll(in0, out0).inventory
  /\ inventory0 = inventory
  /\ req = [s \in Slots |-> IF s = 1
                            THEN [Idle EXCEPT !.trace = TRUE, !.pc = "recalculateAll",
                                              !.op = "refresh", !.snap = Db(ledger, inventory)]
                            ELSE Idle]
  /\ failures = 0
  /\ txn = [t \in Txs |-> IF t = 1 THEN [TxOff EXCEPT !.op = "rebuild", !.tpc = "clearInventory"]
                          ELSE TxOff]
  /\ FifoOff /\ CalcOff

NextRebuild ==
  \/ RbClearInventory(1) \/ RbClearLedger(1) \/ RbFetch(1) \/ RbInsertLedger(1)
  \/ RbInsertInventory(1) \/ RbCommit(1) \/ RbFail(1)
SpecRebuild == InitRebuild /\ [][NextRebuild]_vars

\* ------------------------------------------------------ FIFO cost matcher
MaxBatches == 2     \* rows of inbound_records the matcher reads
MaxOutRecords == 2  \* rows of outbound_records the matcher reads
MaxDate == 2        \* dates are 1..MaxDate (ISO date strings, compared as strings)
MaxFifoQty == 2     \* largest quantity of a row

Dates == 1..MaxDate
Prices == {4, 15}   \* unit prices in mills: 0.004 and 0.015
\* table partners: codes are the key; a partner may have no short name
Partners == {[code |-> "C1", short_name |-> "S1", full_name |-> "Customer One"],
             [code |-> "C2", short_name |-> "S2", full_name |-> "Customer Two"],
             [code |-> "C3", short_name |-> "", full_name |-> "Customer Three"]}
NoPartner == [code |-> "", short_name |-> "", full_name |-> ""]

InRow == [product_model : Models, quantity : 1..MaxFifoQty, unit_price : Prices,
          inbound_date : Dates]
OutRow == [product_model : Models, quantity : 1..MaxFifoQty, outbound_date : Dates,
           customer_code : {"C1", ""}, customer_short_name : {""}]

Min(a, b) == IF a <= b THEN a ELSE b
Max(a, b) == IF a >= b THEN a ELSE b

\* decimalCalc.multiply / add on exact decimals (mills)
DecMultiply(a, b) == a * b
DecAdd(a, b) == a + b

\* decimalCalc.toNumber(decimal, 2): toFixed(2) under ROUND_HALF_UP, in mills
ToNumber2(m) == IF m >= 0 THEN ((m + 5) \div 10) * 10 ELSE 0 - (((0 - m) + 5) \div 10) * 10

\* (mutant) batches ordered by id alone
InboundOrderById(tbl, a, b) == a < b

\* orderBy: [{ inbound_date: 'asc' }, { id: 'asc' }]
InboundOrder(tbl, a, b) ==
  \/ tbl[a].inbound_date < tbl[b].inbound_date
  \/ tbl[a].inbound_date = tbl[b].inbound_date /\ a < b

\* (mutant) records of one date come in descending id
OutboundOrderIdDesc(tbl, a, b) ==
  \/ tbl[a].outbound_date < tbl[b].outbound_date
  \/ tbl[a].outbound_date = tbl[b].outbound_date /\ a > b

\* orderBy: [{ outbound_date: 'asc' }, { id: 'asc' }]
OutboundOrder(tbl, a, b) ==
  \/ tbl[a].outbound_date < tbl[b].outbound_date
  \/ tbl[a].outbound_date = tbl[b].outbound_date /\ a < b

RECURSIVE SortInbound(_, _)
SortInbound(tbl, S) ==
  IF S = {} THEN <<>>
  ELSE LET a == CHOOSE x \in S : \A y \in S \ {x} : InboundOrder(tbl, x, y)
       IN  <<a>> \o SortInbound(tbl, S \ {a})

RECURSIVE SortOutbound(_, _)
SortOutbound(tbl, S) ==
  IF S = {} THEN <<>>
  ELSE LET a == CHOOSE x \in S : \A y \in S \ {x} : OutboundOrder(tbl, x, y)
       IN  <<a>> \o SortOutbound(tbl, S \ {a})

\* prisma.inboundRecord.findMany({where: {quantity: {gt: 0}}, orderBy, select})
InboundQuery(tbl) ==
  LET ids == SortInbound(tbl, {i \in DOMAIN tbl : tbl[i].quantity > 0})
  IN  [k \in 1..Len(ids) |-> [product_model |-> tbl[ids[k]].product_model,
                               quantity |-> tbl[ids[k]].quantity,
                               unit_price |-> tbl[ids[k]].unit_price]]

\* (mutant) the outbound query restricted to the window on both sides
OutboundQueryInWindow(tbl, end) ==
  LET ids == SortOutbound(tbl, {i \in DOMAIN tbl : /\ tbl[i].quantity > 0
                                                     /\ tbl[i].outbound_date >= startDate
                                                     /\ tbl[i].outbound_date <= end})
  IN  [k \in 1..Len(ids) |-> [id |-> ids[k]] @@ tbl[ids[k]]]

\* prisma.outboundRecord.findMany({where: {quantity: {gt: 0}, outbound_date: {lte: endDate}},
\*                                 orderBy, select})
OutboundQuery(tbl, end) ==
  LET ids == SortOutbound(tbl, {i \in DOMAIN tbl : /\ tbl[i].quantity > 0
                                                     /\ tbl[i].outbound_date <= end})
  IN  [k \in 1..Len(ids) |-> [id |-> ids[k]] @@ tbl[ids[k]]]

\* inventoryState[model] || []
Batches(st, m) == IF m \in DOMAIN st THEN st[m] ELSE <<>>

RECURSIVE SeedInventory(_, _)
\* for (const inRecord of allInbound) push {quantity_remaining, unit_price}
SeedInventory(st, recs) ==
  IF recs = <<>> THEN st
  ELSE LET r == Head(recs)
           batch == [quantity_remaining |-> r.quantity, unit_price |-> r.unit_price]
           st2 == IF ~Truthy(r) THEN st
                  ELSE IF r.product_model \in DOMAIN st
                       THEN [st EXCEPT ![r.product_model] = Append(@, batch)]
                       ELSE st @@ (r.product_model :> <<batch>>)
       IN  SeedInventory(st2, Tail(recs))

\* (mutant) the short name is looked up before the code
ResolvePartnerShortFirst(outRecord) ==
  IF /\ outRecord.customer_short_name # ""
     /\ \E q \in Partners : q.short_name = outRecord.customer_short_name
  THEN CHOOSE q \in Partners : q.short_name = outRecord.customer_short_name
  ELSE IF outRecord.customer_code # "" /\ \E q \in Partners : q.code = outRecord.customer_code
       THEN CHOOSE q \in Partners : q.code = outRecord.customer_code
       ELSE NoPartner

\* partner resolution: by code, else by short name
ResolvePartner(outRecord) ==
  IF outRecord.customer_code # "" /\ \E q \in Partners : q.code = outRecord.customer_code
  THEN CHOOSE q \in Partners : q.code = outRecord.customer_code
  ELSE IF /\ outRecord.customer_short_name # ""
          /\ \E q \in Partners : q.short_name = outRecord.customer_short_name
       THEN CHOOSE q \in Partners : q.short_name = outRecord.customer_short_name
       ELSE NoPartner

\* const isTarget = outbound_date >= startDate && outbound_date <= endDate
IsTarget(outRecord, start, end) ==
  outRecord.outbound_date >= start /\ outRecord.outbound_date <= end

\* (mutant) the whole head batch is taken
TakeBatch(remaining, need) == remaining

\* (mutant) nothing is taken
TakeNone(remaining, need) == 0

\* (mutant) the whole need is taken from the head batch
TakeAll(remaining, need) == need

\* const take = Math.min(batch.quantity_remaining, qtyToFulfill)
Take(remaining, need) == Min(remaining, need)

\* const batch = batches[0]
HeadBatch(batches) == Head(batches)

CurrentOut == allOutbound[idx]

\* (mutant) the batch queues of the previous call are kept
StaleInventoryState == inventoryState

\* const inventoryState: Record<string, Batch[]> = {}
FreshInventoryState == <<>>

\* Promise.all of the three findMany calls
FetchData ==
  /\ fpc = "fetch"
  /\ allInbound' = InboundQuery(inRows)
  /\ allOutbound' = OutboundQuery(outRows, endDate)
  /\ fpc' = "seed"
  /\ UNCHANGED <<lastCall, iterations, inRows, outRows, startDate, endDate, inventoryState, processedRecords, idx,
                 qtyToFulfill, currentRecordCost, ledgerVars, concVars, calcVars>>

\* the loop over allInbound
SeedState ==
  /\ fpc = "seed"
  /\ inventoryState' = SeedInventory(FreshInventoryState, allInbound)
  /\ processedRecords' = <<>>
  /\ idx' = 1
  /\ fpc' = "next"
  /\ UNCHANGED <<lastCall, iterations, inRows, outRows, startDate, endDate, allInbound, allOutbound,
                 qtyToFulfill, currentRecordCost, ledgerVars, concVars, calcVars>>

\* the call has returned; calculateFIFOData is called again with the same window
MaxCalls == 2
CallAgain ==
  /\ fpc = "done"
  /\ lastCall.calls + 1 < MaxCalls
  /\ lastCall' = [calls |-> lastCall.calls + 1, records |-> processedRecords]
  /\ fpc' = "fetch"
  /\ UNCHANGED <<iterations, inRows, outRows, startDate, endDate, allInbound, allOutbound, inventoryState,
                 processedRecords, idx, qtyToFulfill, currentRecordCost, ledgerVars, concVars, calcVars>>

\* for (const outRecord of allOutbound): the head of one iteration, or the return
NextOutbound ==
  /\ fpc = "next"
  /\ IF idx > Len(allOutbound)
     THEN fpc' = "done" /\ UNCHANGED <<idx, qtyToFulfill, currentRecordCost, iterations>>
     ELSE IF ~Truthy(CurrentOut)
          THEN idx' = idx + 1 /\ UNCHANGED <<fpc, qtyToFulfill, currentRecordCost, iterations>>
          ELSE /\ qtyToFulfill' = CurrentOut.quantity
               /\ currentRecordCost' = 0
               /\ iterations' = 0
               /\ fpc' = "consume"
               /\ UNCHANGED idx
  /\ UNCHANGED <<lastCall, inRows, outRows, startDate, endDate, allInbound, allOutbound, inventoryState,
                 processedRecords, ledgerVars, concVars, calcVars>>

\* (mutant) records outside the window do not consume
LoopRunsInWindow ==
  /\ qtyToFulfill > 0 /\ Len(Batches(inventoryState, CurrentOut.product_model)) # 0
  /\ IsTarget(CurrentOut, startDate, endDate)

\* (mutant) records that resolve to no partner do not consume
LoopRunsResolvedOnly ==
  /\ qtyToFulfill > 0 /\ Len(Batches(inventoryState, CurrentOut.product_model)) # 0
  /\ ResolvePartner(CurrentOut) # NoPartner

\* the iterations of one while loop are counted up to MaxIterations
MaxIterations == MaxBatches + 2

LoopRuns == qtyToFulfill > 0 /\ Len(Batches(inventoryState, CurrentOut.product_model)) # 0

\* one iteration of while (qtyToFulfill > 0)
Consume ==
  /\ fpc = "consume"
  /\ LoopRuns
  /\ LET model == CurrentOut.product_model
         batches == inventoryState[model]
         batch == HeadBatch(batches)
         take == Take(batch.quantity_remaining, qtyToFulfill)
         counted == IsTarget(CurrentOut, startDate, endDate) /\ ResolvePartner(CurrentOut) # NoPartner
         left == batch.quantity_remaining - take
         rest == IF left <= 0 THEN Tail(batches)
                 ELSE [batches EXCEPT ![1].quantity_remaining = left]
     IN  /\ currentRecordCost' = IF counted
                                 THEN DecAdd(currentRecordCost, DecMultiply(take, batch.unit_price))
                                 ELSE currentRecordCost
         /\ qtyToFulfill' = qtyToFulfill - take
         /\ inventoryState' = [inventoryState EXCEPT ![model] = rest]
  /\ iterations' = Min(iterations + 1, MaxIterations)
  /\ UNCHANGED <<lastCall, inRows, outRows, startDate, endDate, allInbound, allOutbound, processedRecords,
                 idx, fpc, ledgerVars, concVars, calcVars>>

\* Number(outRecord.total_price || 0); a row without a total_price has it null
SalesAmount(outRecord) ==
  IF "total_price" \in DOMAIN outRecord THEN outRecord.total_price ELSE 0

\* the loop has ended: if (isTarget && partner) processedRecords.push(..)
PushRecord ==
  /\ fpc = "consume"
  /\ ~LoopRuns
  /\ processedRecords' =
       IF IsTarget(CurrentOut, startDate, endDate) /\ ResolvePartner(CurrentOut) # NoPartner
       THEN Append(processedRecords,
                   [id |-> CurrentOut.id, product_model |-> CurrentOut.product_model,
                    quantity |-> CurrentOut.quantity,
                    outbound_date |-> CurrentOut.outbound_date,
                    cost_amount |-> ToNumber2(currentRecordCost),
                    sales_amount |-> SalesAmount(CurrentOut),
                    resolved_customer_code |-> ResolvePartner(CurrentOut).code])
       ELSE processedRecords
  /\ idx' = idx + 1
  /\ fpc' = "next"
  /\ UNCHANGED <<lastCall, iterations, inRows, outRows, startDate, endDate, allInbound, allOutbound, inventoryState,
                 qtyToFulfill, currentRecordCost, ledgerVars, concVars, calcVars>>

\* ---- getCustomerAnalysisData / getProductAnalysisData: the returned records grouped
\* (amounts are exact here; the code adds them as JavaScript numbers; profit_rate is left out)
RECURSIVE CostSum(_, _)
\* the cost_amount of the rows K of records, added up
CostSum(records, K) ==
  IF K = {} THEN 0
  ELSE LET k == CHOOSE x \in K : TRUE
       IN  records[k].cost_amount + CostSum(records, K \ {k})

RowsOfCustomer(records, c) == {k \in 1..Len(records) : records[k].resolved_customer_code = c}
RowsOfProduct(records, m) == {k \in 1..Len(records) : records[k].product_model = m}

\* a new group or detail entry: sales_amount: 0, cost_amount: 0, profit_amount: 0
ZeroAmounts == [sales_amount |-> 0, cost_amount |-> 0, profit_amount |-> 0]
\* x.sales_amount += salesAmount; x.cost_amount += costAmount; x.profit_amount += profitAmount
AddRow(g, row) ==
  [sales_amount |-> g.sales_amount + row.sales_amount,
   cost_amount |-> g.cost_amount + row.cost_amount,
   profit_amount |-> g.profit_amount + (row.sales_amount - row.cost_amount)]
\* map[k] = v
Put(map, k, v) == [x \in DOMAIN map \cup {k} |-> IF x = k THEN v ELSE map[x]]

RECURSIVE GroupRows(_, _, _, _)
\* for (const row of records): the group of row[outer] and, inside it, the detail entry
\* of row[inner] are created when missing and the row's amounts are added to both
GroupRows(map, rows, outer, inner) ==
  IF rows = <<>> THEN map
  ELSE LET row == Head(rows)
           o == row[outer]
           i == row[inner]
           g == IF o \in DOMAIN map THEN map[o] ELSE [totals |-> ZeroAmounts, details |-> <<>>]
           e == IF i \in DOMAIN g.details THEN g.details[i] ELSE ZeroAmounts
           g2 == [totals |-> AddRow(g.totals, row), details |-> Put(g.details, i, AddRow(e, row))]
       IN  GroupRows(Put(map, o, g2), Tail(rows), outer, inner)

\* String.prototype.trim on the product models of the tables
Trim(s) == IF s = " " THEN "" ELSE s

\* customerMap: resolved_customer_code -> totals and product_details_map
CustomerAnalysis(records) ==
  LET map == GroupRows(<<>>, records, "resolved_customer_code", "product_model")
  IN  [c \in DOMAIN map |->
         [customer_code |-> c,
          sales_amount |-> map[c].totals.sales_amount,
          cost_amount |-> map[c].totals.cost_amount,
          profit_amount |-> map[c].totals.profit_amount,
          product_details |-> map[c].details]]

\* .filter(product => product.product_model && product.product_model.trim() !== '')
ProductFilter(m) == m # NoModel /\ Trim(m) # ""

\* productMap: product_model -> totals and customer_details_map, filtered
ProductAnalysis(records) ==
  LET map == GroupRows(<<>>, records, "product_model", "resolved_customer_code")
  IN  [m \in {x \in DOMAIN map : ProductFilter(x)} |->
         [product_model |-> m,
          sales_amount |-> map[m].totals.sales_amount,
          cost_amount |-> map[m].totals.cost_amount,
          profit_amount |-> map[m].totals.profit_amount,
          customer_details |-> map[m].details]]

\* const records = await this.calculateFIFOData(..) has returned; the customer groups
GetCustomerAnalysisData ==
  /\ fpc = "done"
  /\ "customer" \notin analysis.called
  /\ analysis' = [analysis EXCEPT !.called = @ \cup {"customer"},
                                  !.customers = CustomerAnalysis(processedRecords)]
  /\ UNCHANGED <<ledgerVars, fifoVars, concVars, division>>

\* the same for the product groups
GetProductAnalysisData ==
  /\ fpc = "done"
  /\ "product" \notin analysis.called
  /\ analysis' = [analysis EXCEPT !.called = @ \cup {"product"},
                                  !.products = ProductAnalysis(processedRecords)]
  /\ UNCHANGED <<ledgerVars, fifoVars, concVars, division>>

InTables == UNION {[1..n -> InRow] : n \in 0..MaxBatches}
OutTables == UNION {[1..n -> OutRow] : n \in 0..MaxOutRecords}

\* the two worked scenarios: 10 at 5.000 then 10 at 8.000, one outbound of 15;
\* 10 at 5.000 then 5 at 9.000, one outbound of 12
ExampleIn(q2, p2) ==
  <<[product_model |-> "X", quantity |-> 10, unit_price |-> 5000, inbound_date |-> 1],
    [product_model |-> "X", quantity |-> q2, unit_price |-> p2, inbound_date |-> 2]>>
ExampleOut(q) ==
  <<[product_model |-> "X", quantity |-> q, outbound_date |-> 3, customer_code |-> "C1",
     customer_short_name |-> ""]>>

FifoInit ==
  /\ \/ /\ inRows \in InTables /\ outRows \in OutTables
        /\ startDate \in Dates /\ endDate \in Dates
     \/ /\ inRows = ExampleIn(10, 8000) /\ outRows = ExampleOut(15)
        /\ startDate = 3 /\ endDate = 3
     \/ /\ inRows = ExampleIn(5, 9000) /\ outRows = ExampleOut(12)
        /\ startDate = 3 /\ endDate = 3
  /\ allInbound = <<>> /\ allOutbound = <<>> /\ inventoryState = <<>>
  /\ processedRecords = <<>> /\ idx = 1 /\ qtyToFulfill = 0 /\ currentRecordCost = 0
  /\ fpc = "fetch"
  /\ lastCall = [calls |-> 0, records |-> <<>>]
  /\ iterations = 0

InitFifo == LedgerInit /\ FifoInit /\ ConcOff /\ CalcOff

\* outbound rows whose customer_code is a partner's, unknown or absent, and whose
\* customer_short_name is another partner's, unknown or absent
MaxPartnerRows == 3
PartnerOutRow == [product_model : {"X"}, quantity : {1}, outbound_date : Dates,
                  customer_code : {"C1", "C9", ""}, customer_short_name : {"S2", "S9", ""}]
InitPartner ==
  /\ LedgerInit /\ ConcOff /\ CalcOff
  /\ inRows \in [1..1 -> [product_model : {"X"}, quantity : {MaxFifoQty}, unit_price : Prices,
                           inbound_date : {1}]]
  /\ outRows \in UNION {[1..n -> PartnerOutRow] : n \in 0..MaxPartnerRows}
  /\ startDate \in Dates /\ endDate \in Dates
  /\ allInbound = <<>> /\ allOutbound = <<>> /\ inventoryState = <<>>
  /\ processedRecords = <<>> /\ idx = 1 /\ qtyToFulfill = 0 /\ currentRecordCost = 0
  /\ fpc = "fetch"
  /\ lastCall = [calls |-> 0, records |-> <<>>]
  /\ iterations = 0
NextFifo == FetchData \/ SeedState \/ NextOutbound \/ Consume \/ PushRecord
SpecFifo == InitFifo /\ [][NextFifo]_vars
SpecPartner == InitPartner /\ [][NextFifo]_vars
NextFifoTwice == NextFifo \/ CallAgain
SpecFifoTwice == InitFifo /\ [][NextFifoTwice]_vars

\* sales of two products, one of them named by a blank, to two customers on one day;
\* both analyses are asked for
SalePrices == {20, 50}
AnalysisInRow == [product_model : {"X", " "}, quantity : 1..MaxFifoQty, unit_price : Prices,
                  inbound_date : {1}]
AnalysisOutRow == [product_model : {"X", " "}, quantity : 1..MaxFifoQty, outbound_date : {1},
                   customer_code : {"C1", "C2"}, customer_short_name : {""},
                   total_price : SalePrices]
InitAnalysis ==
  /\ LedgerInit /\ ConcOff /\ CalcOff
  /\ inRows \in UNION {[1..n -> AnalysisInRow] : n \in 0..MaxBatches}
  /\ outRows \in UNION {[1..n -> AnalysisOutRow] : n \in 0..MaxOutRecords}
  /\ startDate = 1 /\ endDate = 1
  /\ allInbound = <<>> /\ allOutbound = <<>> /\ inventoryState = <<>>
  /\ processedRecords = <<>> /\ idx = 1 /\ qtyToFulfill = 0 /\ currentRecordCost = 0
  /\ fpc = "fetch"
  /\ lastCall = [calls |-> 0, records |-> <<>>]
  /\ iterations = 0
NextAnalysis == NextFifo \/ GetCustomerAnalysisData \/ GetProductAnalysisData
SpecAnalysis == InitAnalysis /\ [][NextAnalysis]_vars

\* one product, every date and window; the call may be made again with another window,
\* and each step of the one sequential call is eventually taken
WindowInRow == [product_model : {"X"}, quantity : 1..MaxFifoQty, unit_price : Prices,
                inbound_date : Dates]
WindowOutRow == [product_model : {"X"}, quantity : 1..MaxFifoQty, outbound_date : Dates,
                 customer_code : {"C1", ""}, customer_short_name : {""}]
InitWindow ==
  /\ LedgerInit /\ ConcOff /\ CalcOff
  /\ inRows \in UNION {[1..n -> WindowInRow] : n \in 0..MaxBatches}
  /\ outRows \in UNION {[1..n -> WindowOutRow] : n \in 0..MaxOutRecords}
  /\ startDate \in Dates /\ endDate \in Dates
  /\ allInbound = <<>> /\ allOutbound = <<>> /\ inventoryState = <<>>
  /\ processedRecords = <<>> /\ idx = 1 /\ qtyToFulfill = 0 /\ currentRecordCost = 0
  /\ fpc = "fetch"
  /\ lastCall = [calls |-> 0, records |-> <<>>]
  /\ iterations = 0
\* the call has returned; calculateFIFOData is called with another window
CallOtherWindow ==
  /\ fpc = "done"
  /\ lastCall.calls + 1 < MaxCalls
  /\ lastCall' = [calls |-> lastCall.calls + 1, records |-> processedRecords]
  /\ startDate' \in Dates /\ endDate' \in Dates
  /\ fpc' = "fetch"
  /\ UNCHANGED <<iterations, inRows, outRows, allInbound, allOutbound, inventoryState,
                 processedRecords, idx, qtyToFulfill, currentRecordCost, ledgerVars, concVars,
                 calcVars>>
NextWindows == NextFifo \/ CallOtherWindow
SpecWindows == InitWindow /\ [][NextWindows]_vars
SpecFifoLive == InitWindow /\ [][NextFifo]_vars /\ WF_vars(NextFifo)

\* ---- DecimalCalculator.decimal / divide
\* a Decimal is NaN, an infinity, or the exact fraction num / den (den > 0)
MaxOperand == 2
NaN == [kind |-> "nan", num |-> 0, den |-> 1]
Infinity == [kind |-> "inf", num |-> 1, den |-> 1]
Finite(n, d) == [kind |-> "fin", num |-> n, den |-> d]
\* numeric strings, and the thousandths new Decimal(string) reads from them
DecimalStrings == {"0", "0.0", "-0", "0.5", "2", "1e-3"}
ParseDecimal(s) ==
  CASE s = "0" -> 0
    [] s = "0.0" -> 0
    [] s = "-0" -> 0
    [] s = "0.5" -> 500
    [] s = "2" -> 2000
    [] s = "1e-3" -> 1
\* the arguments: null, undefined, a number (an integer, NaN or Infinity), a numeric string
DivInputs ==
  {[t |-> "null"], [t |-> "undefined"], [t |-> "NaN"], [t |-> "Infinity"]}
    \cup {[t |-> "number", v |-> n] : n \in (0 - MaxOperand)..MaxOperand}
    \cup {[t |-> "string", v |-> s] : s \in DecimalStrings}

\* decimal(value): null and undefined are new Decimal(0), anything else new Decimal(value)
Decimal(value) ==
  CASE value.t \in {"null", "undefined"} -> Finite(0, 1)
    [] value.t = "NaN" -> NaN
    [] value.t = "Infinity" -> Infinity
    [] value.t = "number" -> Finite(value.v, 1)
    [] value.t = "string" -> Finite(ParseDecimal(value.v), 1000)

\* Decimal.prototype.isZero
IsZero(x) == x.kind = "fin" /\ x.num = 0

\* Decimal.prototype.div
Div(x, y) ==
  IF x.kind = "nan" \/ y.kind = "nan" THEN NaN
  ELSE IF x.kind = "inf" THEN (IF y.kind = "inf" THEN NaN ELSE Infinity)
  ELSE IF y.kind = "inf" THEN Finite(0, 1)
  ELSE IF y.num = 0 THEN (IF x.num = 0 THEN NaN ELSE Infinity)
  ELSE IF y.num > 0 THEN Finite(x.num * y.den, x.den * y.num)
  ELSE Finite(0 - x.num * y.den, x.den * (0 - y.num))

\* (mutant) divide without the isZero check
DivideUnchecked(a, b) == [status |-> "ok", value |-> Div(Decimal(a), Decimal(b))]

\* divide(a, b)
Divide(a, b) ==
  LET divisor == Decimal(b)
  IN  IF IsZero(divisor)
      THEN [status |-> "error", message |-> "Division by zero"]
      ELSE [status |-> "ok", value |-> Div(Decimal(a), divisor)]

\* one call of decimalCalc.divide with the two arguments
DivideCall ==
  /\ division.outcome.status = "none"
  /\ division' = [division EXCEPT !.outcome = Divide(division.a, division.b)]
  /\ UNCHANGED <<ledgerVars, fifoVars, concVars, analysis>>

InitDivide ==
  /\ LedgerInit /\ FifoOff /\ ConcOff /\ AnalysisOff
  /\ division \in [a : DivInputs, b : DivInputs, outcome : {[status |-> "none"]}]
NextDivide == DivideCall
SpecDivide == InitDivide /\ [][NextDivide]_vars

\* ----------------------------------------------------------------- claims
InventoryQty(inv, m) == IF m \in DOMAIN inv THEN inv[m] ELSE 0
AllIdle == \A s \in Slots : req[s].pc = "idle"
Rebuilt == RecalculateAll(inbound, outbound)

\* C1: after every committed inventoryService operation, for every product the
\* inventory row's quantity equals the sum of change_qty over the ledger rows of that
\* product (a product without a row counts as 0)
ProjectionInvariant == \A m \in Models : InventoryQty(inventory, m) = LedgerSum(ledger, m)

\* C1 witness: an update has completed, the ledger holds events of both kinds and a
\* product has a non-zero quantity
ProjectionWitness ==
  /\ req[1].op = "put" /\ req[1].status = "ok"
  /\ \E r1, r2 \in BagToSet(ledger) : r1.change_type = "INBOUND" /\ r2.change_type = "OUTBOUND"
  /\ \E m \in Models : InventoryQty(inventory, m) # 0

\* C2: between requests the incrementally maintained inventory table is identical
\* (same rows, same quantities) to the one recalculateAll() builds from the source tables
RebuildEquivalence == AllIdle => inventory = Rebuilt.inventory

\* the ledger events of one source record, and the events its current values call for
Contribution(l, kind, id) == Matching(l, id, kind)
Expected(inb, outb, kind, id) == Matching(RecalculateAll(inb, outb).ledger, id, kind)

\* the handler's own write to the record table is in the committed table
Persisted(r, inb, outb) ==
  LET tbl == IF r.kind = "INBOUND" THEN inb ELSE outb
  IN  /\ r.wrote
      /\ IF r.op = "delete" THEN r.id \notin DOMAIN tbl ELSE r.id \in DOMAIN tbl

FailsNow(s) == req[s].pc # "idle" /\ req'[s].pc = "idle" /\ req'[s].status = "failed"

\* C3: a request whose inventoryService step fails leaves no committed source-record
\* change behind whose ledger contribution is missing or stale
SourceRecordLinked ==
  [][\A s \in Slots :
       (FailsNow(s) /\ Persisted(req[s], inbound', outbound'))
         => Contribution(ledger', req[s].kind, req[s].id)
              = Expected(inbound', outbound', req[s].kind, req[s].id)]_vars

\* C4: when the re-apply step of on<Kind>Update fails after the revert step ran, ledger
\* and projection are exactly as they were before the update
UpdateAtomic ==
  [][\A s \in Slots :
       (req[s].pc = "reapply" /\ FailsNow(s))
         => (ledger' = req[s].snap.ledger /\ inventory' = req[s].snap.inventory)]_vars

\* C8: once a rebuild and the record requests interleaved with it have all completed,
\* every eligible source record contributes exactly one ledger event and every
\* projection equals the sum over the source records
RebuildSerialized ==
  AllIdle => /\ ledger = Rebuilt.ledger
             /\ \A m \in Models : InventoryQty(inventory, m) = InventoryQty(Rebuilt.inventory, m)

\* a revert (on<Kind>Delete) commits in this step
Reverts(s) ==
  /\ req[s].pc \in {"onDelete", "revert"}
  /\ req'[s].pc # req[s].pc
  /\ failures' = failures
RevertId(s) == IF req[s].pc = "revert" THEN req[s].oldRecord.id ELSE req[s].id

\* C10: on<Kind>Delete(id) for an id without a ledger event of that kind leaves every
\* ledger row and every inventory row unchanged, and reverting twice equals reverting once
RevertNoOp ==
  /\ [][\A s \in Slots :
          (Reverts(s) /\ Matching(ledger, RevertId(s), req[s].kind) = EmptyBag)
            => (ledger' = ledger /\ inventory' = inventory)]_vars
  /\ [](\A kind \in Kinds : \A id \in Ids(kind) :
          /\ Matching(ledger, id, kind) = EmptyBag => OnDelete(kind, Committed, id) = Committed
          /\ OnDelete(kind, OnDelete(kind, Committed, id), id) = OnDelete(kind, Committed, id))

\* C10 witness: a DELETE completed whose revert found no ledger entry, while the ledger
\* holds events of other records
RevertNoOpWitness ==
  /\ req[1].op = "delete" /\ req[1].status = "ok" /\ req[1].entries = 0
  /\ ledger # EmptyBag

\* ---- what FIFO means, read off the tables: the batches of a product laid end to end,
\* oldest first, and the outbound records laying their quantities along the same line
RECURSIVE SumOver(_, _)
SumOver(S, f) ==
  IF S = {} THEN 0
  ELSE LET x == CHOOSE y \in S : TRUE IN f[x] + SumOver(S \ {x}, f)

OlderBatch(a, b) ==
  \/ inRows[a].inbound_date < inRows[b].inbound_date
  \/ inRows[a].inbound_date = inRows[b].inbound_date /\ a < b
EarlierOut(a, b) ==
  \/ outRows[a].outbound_date < outRows[b].outbound_date
  \/ outRows[a].outbound_date = outRows[b].outbound_date /\ a < b

BatchesOf(m) == {i \in DOMAIN inRows : inRows[i].product_model = m /\ inRows[i].quantity > 0}
OutboundOf(m) == {j \in DOMAIN outRows : outRows[j].product_model = m /\ outRows[j].quantity > 0}
TotalIn(m) == SumOver(BatchesOf(m), [i \in BatchesOf(m) |-> inRows[i].quantity])
BatchStart(b) ==
  LET S == {i \in BatchesOf(inRows[b].product_model) : OlderBatch(i, b)}
  IN  SumOver(S, [i \in S |-> inRows[i].quantity])
BatchEnd(b) == BatchStart(b) + inRows[b].quantity
Offset(o) ==
  LET S == {j \in OutboundOf(outRows[o].product_model) : EarlierOut(j, o)}
  IN  SumOver(S, [j \in S |-> outRows[j].quantity])
RefTake(o, b) ==
  Max(0, Min(BatchEnd(b), Offset(o) + outRows[o].quantity) - Max(BatchStart(b), Offset(o)))
RefCost(o) ==
  LET S == BatchesOf(outRows[o].product_model)
  IN  SumOver(S, [b \in S |-> RefTake(o, b) * inRows[b].unit_price])
\* the value of everything still in the queue when record o starts
AvailableValue(o) ==
  LET S == BatchesOf(outRows[o].product_model)
  IN  SumOver(S, [b \in S |-> Max(0, BatchEnd(b) - Max(BatchStart(b), Offset(o)))
                                * inRows[b].unit_price])
Available(o) == Max(0, TotalIn(outRows[o].product_model) - Offset(o))
Oversold(o) == outRows[o].quantity > Available(o)
Remaining(st, m) ==
  LET q == Batches(st, m)
  IN  SumOver(1..Len(q), [k \in 1..Len(q) |-> q[k].quantity_remaining])
Returned == {processedRecords[k] : k \in 1..Len(processedRecords)}

ExamplesHold ==
  /\ (inRows = ExampleIn(10, 8000) /\ fpc = "done")
       => (Len(processedRecords) = 1 /\ processedRecords[1].cost_amount = 90000)
  /\ (inRows = ExampleIn(5, 9000) /\ fpc = "done")
       => (Len(processedRecords) = 1 /\ processedRecords[1].cost_amount = 68000)

WindowExclusion ==
  /\ \A r \in Returned : startDate <= r.outbound_date /\ r.outbound_date <= endDate
  /\ \A r \in Returned : outRows[r.id].outbound_date >= startDate
  /\ (fpc = "consume" /\ qtyToFulfill = CurrentOut.quantity)
       => Remaining(inventoryState, CurrentOut.product_model) = Available(CurrentOut.id)
  /\ fpc = "done"
       => \A m \in Models :
            LET S == {j \in OutboundOf(m) : outRows[j].outbound_date <= endDate}
            IN  Remaining(inventoryState, m)
                  = Max(0, TotalIn(m) - SumOver(S, [j \in S |-> outRows[j].quantity]))

\* C6 witness: the call returned a record whose product had an outbound record before
\* startDate that took from a batch
WindowExclusionWitness ==
  /\ fpc = "done"
  /\ \E r \in Returned : \E j \in OutboundOf(r.product_model) :
       /\ outRows[j].outbound_date < startDate
       /\ \E b \in BatchesOf(r.product_model) : RefTake(j, b) > 0
       /\ \A q \in Returned : q.id # j

\* C7 as stated: the cost_amount of an oversold record is the sum of
\* remaining_quantity * unit_price over the batches that were available
OversellExact == \A r \in Returned : Oversold(r.id) => r.cost_amount = AvailableValue(r.id)

\* C7 amended: the cost_amount of an oversold record is that sum rounded half-up to two
\* decimals and never negative; its loop ends with the queue empty and the uncovered
\* quantity left over
OversellRounded ==
  /\ \A r \in Returned :
       Oversold(r.id) => (r.cost_amount = ToNumber2(AvailableValue(r.id)) /\ r.cost_amount >= 0)
  /\ (fpc = "consume" /\ ~LoopRuns /\ Oversold(CurrentOut.id))
       => /\ Batches(inventoryState, CurrentOut.product_model) = <<>>
          /\ qtyToFulfill = CurrentOut.quantity - Available(CurrentOut.id)

\* C7 witness: a returned record asked for more than was left while something was left
OversellWitness ==
  /\ fpc = "done"
  /\ \E r \in Returned : Oversold(r.id) /\ Available(r.id) > 0 /\ r.cost_amount > 0

\* the change one call makes to the quantity of product m
CallDelta(c, m) ==
  IF c.record.product_model # m THEN 0
  ELSE LET signed == IF c.kind = "INBOUND" THEN c.record.quantity ELSE 0 - c.record.quantity
       IN  IF c.op = "create" THEN signed ELSE 0 - signed
BothDone == \A t \in Txs : txn[t].tpc = "done" /\ txn[t].op # "none"

\* C9: when two create / delete transactions for different records have both committed,
\* however their statements interleaved, every product's quantity is its initial
\* quantity plus the deltas of both
NoLostUpdate ==
  BothDone => \A m \in Models :
                InventoryQty(inventory, m)
                  = InventoryQty(inventory0, m) + CallDelta(txn[1], m) + CallDelta(txn[2], m)

\* C9 witness: both transactions committed changes to the same product, and the first
\* to commit did so while the other was in the middle of its own statements
NoLostUpdateWitness ==
  /\ BothDone
  /\ txn[1].record.product_model = txn[2].record.product_model
  /\ \E t \in Txs : txn[t].overlap
  /\ \E t \in Txs : txn[t].op = "delete"
  /\ InventoryQty(inventory, txn[1].record.product_model)
       # InventoryQty(inventory0, txn[1].record.product_model)

\* ---- contracts of the service calls, read off the slot that keeps the last call
\* the ledger event on<Kind>Create writes for a record
EventOf(kind, rec) ==
  LedgerRow(rec.product_model, IF kind = "INBOUND" THEN rec.quantity ELSE 0 - rec.quantity,
            kind, rec.id)
SameRows(inv1, inv2, S) ==
  \A m \in S : (m \in DOMAIN inv1 <=> m \in DOMAIN inv2) /\ InventoryQty(inv1, m) = InventoryQty(inv2, m)
\* the last transaction of the answered request r was on<Kind>Create(r.result), run on r.pre
CreateCall(r) == r.pc = "idle" /\ r.status = "ok" /\ r.op \in {"post", "put"}
\* the answered request r was on<Kind>Update(r, r) for a record whose event was in the ledger
IdentityUpdate(r) ==
  /\ r.pc = "idle" /\ r.op = "put" /\ r.status = "ok"
  /\ r.result = r.oldRecord
  /\ Truthy(r.oldRecord)
  /\ Matching(r.snap.ledger, r.id, r.kind) = SetToBag({EventOf(r.kind, r.oldRecord)})

\* C11: on<Kind>Update(r, r) for a record whose event is in the ledger leaves the quantity
\* of every product as it was and leaves exactly one event for (r.id, kind), with the
\* same product and delta
UpdateIdempotent ==
  \A s \in Slots :
    IdentityUpdate(req[s])
      => /\ \A m \in Models : InventoryQty(inventory, m) = InventoryQty(req[s].snap.inventory, m)
         /\ Matching(ledger, req[s].id, req[s].kind) = SetToBag({EventOf(req[s].kind, req[s].oldRecord)})
         /\ ledger = req[s].snap.ledger

\* C11 witness: such an update has been answered, the revert found the event, and the
\* product's quantity is not zero
UpdateIdempotentWitness ==
  /\ IdentityUpdate(req[1])
  /\ req[1].entries = 1
  /\ InventoryQty(inventory, req[1].result.product_model) # 0
  /\ BagCardinality(ledger) > 1

\* C12: on<Kind>Create of a record with a product and a non-zero quantity q appends
\* exactly one event (reference_id = id, its kind, +q inbound / -q outbound), changes the
\* quantity of the record's product by that delta (creating the row with it when absent)
\* and leaves the row of every other product alone
CreateEffect ==
  \A s \in Slots :
    LET r == req[s]
        e == EventOf(r.kind, r.result)
    IN  (CreateCall(r) /\ Truthy(r.result))
          => /\ ledger = r.pre.ledger (+) SetToBag({e})
             /\ e.reference_id = r.result.id /\ e.change_type = r.kind
             /\ e.change_qty = (IF r.kind = "INBOUND" THEN r.result.quantity
                                ELSE 0 - r.result.quantity)
             /\ r.result.product_model \in DOMAIN inventory
             /\ inventory[r.result.product_model]
                  = InventoryQty(r.pre.inventory, r.result.product_model) + e.change_qty
             /\ SameRows(inventory, r.pre.inventory, Models \ {r.result.product_model})

\* C12 witness: an outbound create has been answered that created the row of its product
\* while another product already had a row
CreateEffectWitness ==
  /\ CreateCall(req[1]) /\ Truthy(req[1].result)
  /\ req[1].kind = "OUTBOUND"
  /\ req[1].result.product_model \notin DOMAIN req[1].pre.inventory
  /\ req[1].pre.inventory # <<>>
  /\ inventory[req[1].result.product_model] < 0

\* C13: on<Kind>Create of a record without a product, or with quantity absent or zero,
\* returns normally and writes nothing: the ledger and every inventory row are as before
CreateSkipsEmpty ==
  \A s \in Slots :
    (CreateCall(req[s]) /\ (req[s].result.product_model = NoModel \/ req[s].result.quantity = 0))
      => (ledger = req[s].pre.ledger /\ inventory = req[s].pre.inventory)

\* C13 witness: a create for a record with a product and quantity zero has been answered
\* while the ledger held events
CreateSkipsEmptyWitness ==
  /\ CreateCall(req[1]) /\ req[1].op = "post"
  /\ req[1].result.product_model # NoModel /\ req[1].result.quantity = 0
  /\ ledger # EmptyBag

\* C14: a record without a product, or whose quantity is absent, zero or negative, gets
\* no ledger event and changes no inventory row: not from on<Kind>Create, not from the
\* re-apply step of on<Kind>Update, not from recalculateAll
InvalidInputNoOp ==
  /\ \A s \in Slots :
       (CreateCall(req[s]) /\ (req[s].result.product_model = NoModel \/ req[s].result.quantity <= 0))
         => (ledger = req[s].pre.ledger /\ inventory = req[s].pre.inventory)
  /\ \A s \in Slots :
       (req[s].pc = "idle" /\ req[s].op = "refresh" /\ req[s].status = "ok")
         => \A e \in BagToSet(ledger) :
              LET tbl == IF e.change_type = "INBOUND" THEN inbound ELSE outbound
              IN  tbl[e.reference_id].quantity > 0

\* the answered request r was a rebuild
RebuildCall(r) == r.pc = "idle" /\ r.op = "refresh" /\ r.status = "ok"

\* C15: after recalculateAll(), whatever the tables held before, the ledger holds exactly
\* one event per inbound (+quantity) and outbound (-quantity) record that has a product
\* and a non-zero quantity and nothing else; the inventory has exactly one row per product
\* of those events, holding the sum of its deltas; processed_events and products_count
\* are the numbers of events and of products
RebuildResult ==
  \A s \in Slots :
    RebuildCall(req[s])
      => /\ \A kind \in Kinds : \A id \in Ids(kind) :
              Matching(ledger, id, kind)
                = IF id \in DOMAIN Table(kind) /\ Table(kind)[id].product_model # NoModel
                       /\ Table(kind)[id].quantity # 0
                  THEN SetToBag({EventOf(kind, Rec(id, Table(kind)[id]))})
                  ELSE EmptyBag
         /\ \A e \in BagToSet(ledger) :
              e.change_type \in Kinds /\ e.reference_id \in DOMAIN Table(e.change_type)
         /\ DOMAIN inventory = {e.product_model : e \in BagToSet(ledger)}
         /\ \A m \in DOMAIN inventory : inventory[m] = LedgerSum(ledger, m)
         /\ req[s].stats.processed_events = BagCardinality(ledger)
         /\ req[s].stats.products_count = Cardinality(DOMAIN inventory)

\* C15 witness: a rebuild has been answered that changed the inventory table it found
\* (a row left at zero by a delete), with events of both kinds written
RebuildResultWitness ==
  /\ RebuildCall(req[1])
  /\ req[1].pre.inventory # inventory
  /\ req[1].pre.ledger = ledger
  /\ \E e1, e2 \in BagToSet(ledger) : e1.change_type = "INBOUND" /\ e2.change_type = "OUTBOUND"
  /\ req[1].stats.processed_events = 2 /\ req[1].stats.products_count >= 1

\* the transactions that have committed
DoneTxs == {t \in Txs : txn[t].tpc = "done" /\ txn[t].op # "none"}
CommittedDelta(m) ==
  SumOver(DoneTxs, [t \in DoneTxs |-> CallDelta(txn[t], m)])

\* C17: in every committed state the event of an on<Kind>Create call is in the ledger
\* exactly when its transaction has committed, and the inventory is adjusted by exactly
\* the deltas of the committed transactions: never the event without the adjustment nor
\* the adjustment without the event, whichever statement fails
AppendAtomic ==
  /\ \A t \in Txs :
       (txn[t].op = "create" /\ Truthy(txn[t].record))
         => (CopiesIn(EventOf(txn[t].kind, txn[t].record), ledger)
               = IF txn[t].tpc = "done" THEN 1 ELSE 0)
  /\ \A m \in Models :
       InventoryQty(inventory, m) = InventoryQty(inventory0, m) + CommittedDelta(m)

\* C17 witness: a create failed at its second statement, after its insert had run, while
\* the other transaction, a create for the same product, committed
AppendAtomicWitness ==
  \E t, u \in Txs :
    /\ txn[t].op = "create" /\ txn[t].tpc = "failed"
    /\ txn[t].pendAdd # EmptyBag /\ txn[t].pendUps = <<>>
    /\ txn[u].op = "create" /\ txn[u].tpc = "done"
    /\ txn[u].record.product_model = txn[t].record.product_model

\* C16: while recalculateAll() runs and after it has failed at any statement, the ledger
\* and inventory tables that readers see are exactly as they were before the call; they
\* change only at the commit, and then to the complete result
RebuildAllOrNothing ==
  /\ (txn[1].op = "rebuild" /\ txn[1].tpc # "done") => Committed = req[1].snap
  /\ (req[1].op = "refresh" /\ req[1].status = "failed") => Committed = req[1].snap
  /\ (txn[1].op = "rebuild" /\ txn[1].tpc = "done")
       => (req[1].status = "ok" /\ Committed = Rebuilt)

\* C16 witness: the rebuild failed after it had cleared both tables and inserted the
\* ledger rows and before it inserted the inventory rows, on tables that held other rows
RebuildAllOrNothingWitness ==
  /\ txn[1].op = "rebuild" /\ txn[1].tpc = "failed"
  /\ req[1].op = "refresh" /\ req[1].status = "failed"
  /\ txn[1].work.ledger # EmptyBag /\ txn[1].work.inventory = <<>>
  /\ ledger # EmptyBag /\ ledger # txn[1].work.ledger
  /\ inventory # <<>>

\* C18: in every state the ledger holds at most one event for a (reference_id,
\* change_type) pair, and once the requests in flight have been answered that event
\* carries the product and signed quantity the source record has now
UniqueContribution ==
  \A kind \in Kinds : \A id \in Ids(kind) :
    /\ BagCardinality(Matching(ledger, id, kind)) <= 1
    /\ AllIdle => \A e \in BagToSet(Matching(ledger, id, kind)) :
                    /\ id \in DOMAIN Table(kind)
                    /\ e = EventOf(kind, Rec(id, Table(kind)[id]))

\* ---- partner resolution as the rule states it
ByCode(o) == {q \in Partners : o.customer_code # "" /\ q.code = o.customer_code}
ByShortName(o) ==
  {q \in Partners : o.customer_short_name # "" /\ q.short_name = o.customer_short_name}
\* the code of the partner record o resolves to, "" when it resolves to none
ExpectedCode(o) ==
  IF ByCode(o) # {} THEN (CHOOSE q \in ByCode(o) : TRUE).code
  ELSE IF ByShortName(o) # {} THEN (CHOOSE q \in ByShortName(o) : TRUE).code
       ELSE ""
\* the outbound rows of the window that resolve to a partner
InWindow == {j \in DOMAIN outRows : /\ outRows[j].quantity > 0
                                    /\ startDate <= outRows[j].outbound_date
                                    /\ outRows[j].outbound_date <= endDate}
Resolved == {j \in InWindow : ExpectedCode(outRows[j]) # ""}
ExpectedCost(S) == SumOver(S, [j \in S |-> ToNumber2(RefCost(j))])

\* C19: a returned record carries the partner whose code equals its customer_code when
\* there is one, and otherwise the partner whose short_name equals its
\* customer_short_name; a record that resolves to no partner is not in the returned list,
\* in no customer group and in no product group, and every record of the window that
\* resolves is in all three
PartnerResolution ==
  /\ \A r \in Returned :
       r.resolved_customer_code # "" /\ r.resolved_customer_code = ExpectedCode(outRows[r.id])
  /\ fpc = "done"
       => /\ {r.id : r \in Returned} = Resolved
          /\ Len(processedRecords) = Cardinality(Resolved)
          /\ LET byCustomer == CustomerAnalysis(processedRecords)
                 byProduct == ProductAnalysis(processedRecords)
             IN  /\ DOMAIN byCustomer = {ExpectedCode(outRows[j]) : j \in Resolved}
                 /\ \A c \in DOMAIN byCustomer :
                      byCustomer[c].cost_amount
                        = ExpectedCost({j \in Resolved : ExpectedCode(outRows[j]) = c})
                 /\ DOMAIN byProduct = {outRows[j].product_model : j \in Resolved}
                 /\ \A m \in DOMAIN byProduct :
                      /\ byProduct[m].cost_amount
                           = ExpectedCost({j \in Resolved : outRows[j].product_model = m})
                      /\ DOMAIN byProduct[m].customer_details
                           = {ExpectedCode(outRows[j]) :
                                j \in {i \in Resolved : outRows[i].product_model = m}}

\* C19 witness: the call returned a record resolved by its code although its short name
\* is another partner's, and one resolved by short name because no partner has its code,
\* and left out a record of the window that matches neither; the groups hold a cost
WitnessRows(code, short) ==
  {j \in InWindow : outRows[j].customer_code = code /\ outRows[j].customer_short_name = short}
PartnerResolutionWitness ==
  /\ fpc = "done"
  /\ \E r \in Returned : r.id \in WitnessRows("C1", "S2") /\ r.resolved_customer_code = "C1"
  /\ \E r \in Returned : r.id \in WitnessRows("C9", "S2") /\ r.resolved_customer_code = "C2"
  /\ WitnessRows("C9", "S9") # {}
  /\ \E c \in DOMAIN CustomerAnalysis(processedRecords) :
       CustomerAnalysis(processedRecords)[c].cost_amount > 0

\* C20: no step of calculateFIFOData changes a row of inbound_records, outbound_records,
\* inventory_ledger or inventory, and a second call with the same window on the same
\* data returns the same records with the same cost_amount: nothing the first call
\* consumed is missing from the batches of the second
FifoReproducible ==
  /\ [][/\ inRows' = inRows /\ outRows' = outRows
        /\ inbound' = inbound /\ outbound' = outbound
        /\ ledger' = ledger /\ inventory' = inventory]_vars
  /\ []((fpc = "done" /\ lastCall.calls >= 1) => processedRecords = lastCall.records)
  /\ []((fpc = "next" /\ idx = 1)
          => \A m \in Models : Remaining(inventoryState, m) = TotalIn(m))

\* C20 witness: the second call has returned, and the first had used up a batch and
\* returned a record with a cost
FifoReproducibleWitness ==
  /\ fpc = "done" /\ lastCall.calls = 1
  /\ \E k \in 1..Len(lastCall.records) : lastCall.records[k].cost_amount > 0
  /\ \E m \in Models : Remaining(inventoryState, m) < TotalIn(m)
  /\ Len(processedRecords) >= 1

\* the position of a row in the order (date, id) among the rows the query keeps
InboundRank(i) ==
  1 + Cardinality({j \in DOMAIN inRows : inRows[j].quantity > 0 /\ OlderBatch(j, i)})
OutboundRank(o) ==
  1 + Cardinality({j \in DOMAIN outRows : /\ outRows[j].quantity > 0
                                          /\ outRows[j].outbound_date <= endDate
                                          /\ EarlierOut(j, o)})

\* C21: the batches reach the replay ordered by inbound date and, within one date, by
\* ascending id, the outbound records by outbound date and, within one date, by
\* ascending id; the cost of a returned record is the one that order gives
TieBreakById ==
  /\ fpc # "fetch"
       => /\ \A i \in DOMAIN inRows :
               inRows[i].quantity > 0
                 => /\ InboundRank(i) \in DOMAIN allInbound
                    /\ allInbound[InboundRank(i)].product_model = inRows[i].product_model
                    /\ allInbound[InboundRank(i)].quantity = inRows[i].quantity
                    /\ allInbound[InboundRank(i)].unit_price = inRows[i].unit_price
          /\ \A o \in DOMAIN outRows :
               (outRows[o].quantity > 0 /\ outRows[o].outbound_date <= endDate)
                 => (OutboundRank(o) \in DOMAIN allOutbound /\ allOutbound[OutboundRank(o)].id = o)
  /\ \A k, l \in 1..Len(processedRecords) :
       (k < l /\ processedRecords[k].outbound_date = processedRecords[l].outbound_date)
         => processedRecords[k].id < processedRecords[l].id
  /\ \A r \in Returned :
       (\E b1, b2 \in BatchesOf(r.product_model) :
          b1 # b2 /\ inRows[b1].inbound_date = inRows[b2].inbound_date)
         => r.cost_amount = ToNumber2(RefCost(r.id))

\* C21 witness: two batches of one product with the same date and different prices, and
\* two returned records of that product with the same date, the first of which took from
\* the batch with the lower id only and the second from the other
TieBreakByIdWitness ==
  /\ fpc = "done"
  /\ \E r1, r2 \in Returned : \E b1, b2 \in BatchesOf(r1.product_model) :
       /\ r1.id < r2.id /\ r1.product_model = r2.product_model
       /\ r1.outbound_date = r2.outbound_date
       /\ b1 < b2 /\ inRows[b1].inbound_date = inRows[b2].inbound_date
       /\ inRows[b1].unit_price # inRows[b2].unit_price
       /\ RefTake(r1.id, b1) > 0 /\ RefTake(r1.id, b2) = 0 /\ RefTake(r2.id, b2) > 0
       /\ r1.cost_amount # r2.cost_amount

\* the last transaction of the answered request r was on<Kind>Delete(r.id), run on r.pre
DeleteCall(r) == r.pc = "idle" /\ r.status = "ok" /\ r.op = "delete"

\* C23: after on<Kind>Delete(id) no event of that kind with reference_id = id is left;
\* every product's quantity has gone down by the sum of change_qty of the deleted events;
\* events of the other kind with the same reference_id, events of other references and
\* the rows of products the deleted events do not name are as before
RevertEffect ==
  \A s \in Slots :
    LET r == req[s]
        gone == Matching(r.pre.ledger, r.id, r.kind)
        named == {e.product_model : e \in BagToSet(gone)}
    IN  DeleteCall(r)
          => /\ Matching(ledger, r.id, r.kind) = EmptyBag
             /\ ledger (+) gone = r.pre.ledger
             /\ \A e \in BagToSet(r.pre.ledger) :
                  (e.reference_id # r.id \/ e.change_type # r.kind)
                    => CopiesIn(e, ledger) = CopiesIn(e, r.pre.ledger)
             /\ \A m \in Models :
                  InventoryQty(inventory, m)
                    = InventoryQty(r.pre.inventory, m) - LedgerSum(gone, m)
             /\ SameRows(inventory, r.pre.inventory, Models \ named)

\* C23 witness: an inbound delete has been answered that removed the event of its record
\* and changed its product's quantity, while the outbound record with the same id keeps
\* its event
RevertEffectWitness ==
  /\ DeleteCall(req[1]) /\ req[1].kind = "INBOUND" /\ req[1].entries = 1
  /\ Matching(ledger, req[1].id, "OUTBOUND") # EmptyBag
  /\ inventory # req[1].pre.inventory

\* what had arrived of record o's product by its date
ArrivedBy(o) ==
  LET S == {b \in BatchesOf(outRows[o].product_model) :
              inRows[b].inbound_date <= outRows[o].outbound_date}
  IN  SumOver(S, [b \in S |-> inRows[b].quantity])

\* C25: an outbound record takes nothing from a batch dated after it: what it has taken
\* never exceeds what had arrived of its product by its date, and a returned record of a
\* product nothing of which had arrived by then has no cost
FifoCausality ==
  /\ fpc = "consume" => CurrentOut.quantity - qtyToFulfill <= ArrivedBy(CurrentOut.id)
  /\ \A r \in Returned : ArrivedBy(r.id) = 0 => r.cost_amount = 0

\* C26: once the concurrent update and delete requests have all been answered, every
\* ledger event names a source record that exists, and the inventory counts exactly the
\* records that exist
NoOrphanContribution ==
  AllIdle => /\ \A e \in BagToSet(ledger) : e.reference_id \in DOMAIN Table(e.change_type)
             /\ \A m \in Models :
                  InventoryQty(inventory, m) = InventoryQty(Rebuilt.inventory, m)

\* C27: when calculateFIFOData has been called with two windows on the same tables, a
\* record returned by both calls has the same cost_amount in both
WindowIndependence ==
  (fpc = "done" /\ lastCall.calls = 1)
    => \A r \in Returned : \A k \in 1..Len(lastCall.records) :
         lastCall.records[k].id = r.id => lastCall.records[k].cost_amount = r.cost_amount

\* C27 witness: two calls returned lists of different length that share a record with a
\* cost, and outbound records before it had taken from the queue
WindowIndependenceWitness ==
  /\ fpc = "done" /\ lastCall.calls = 1
  /\ Len(lastCall.records) # Len(processedRecords)
  /\ \E r \in Returned : \E k \in 1..Len(lastCall.records) :
       /\ lastCall.records[k].id = r.id
       /\ r.cost_amount > 0
       /\ Offset(r.id) > 0

\* C28: when the loop of an outbound record has ended, the record has taken
\* min(quantity, available) from its product's queue whether or not it is in the window
\* and whether or not it resolves to a partner; a record that is not counted has
\* accumulated no cost and is not returned; and a returned record's cost is the FIFO
\* cost computed with every earlier record of the product consuming
Unresolved(o) == ResolvePartner(outRows[o]) = NoPartner
UnresolvedDepletes ==
  /\ (fpc = "consume" /\ ~LoopRuns)
       => /\ CurrentOut.quantity - qtyToFulfill
               = Min(CurrentOut.quantity, Available(CurrentOut.id))
          /\ (Unresolved(CurrentOut.id) \/ ~IsTarget(CurrentOut, startDate, endDate))
               => currentRecordCost = 0
  /\ \A r \in Returned : ~Unresolved(r.id) /\ r.cost_amount = ToNumber2(RefCost(r.id))

\* C28 witness: a returned record found the queue short only because an earlier record
\* that resolves to no partner had taken from it
UnresolvedDepletesWitness ==
  /\ fpc = "done"
  /\ \E r \in Returned :
       /\ Oversold(r.id)
       /\ TotalIn(r.product_model) >= r.quantity
       /\ \A j \in OutboundOf(r.product_model) : EarlierOut(j, r.id) => Unresolved(j)

\* C29: every batch in a queue has 0 < quantity_remaining <= the quantity it was seeded
\* with, the queue being the tail of the seeded one; what the current record has taken
\* plus what remains is what was there when it started, and at the end of its loop it has
\* taken min(quantity, that amount); what the records so far have taken from a product is
\* at most the product's total inbound quantity; and a step of one record's loop leaves
\* the queues of the other products as they were
Seeded(m) == Batches(SeedInventory(FreshInventoryState, allInbound), m)
TakenFrom(m) == TotalIn(m) - Remaining(inventoryState, m)
DoneBefore(m) ==
  LET S == {k \in 1..Len(allOutbound) : k < idx /\ allOutbound[k].product_model = m}
  IN  SumOver(S, [k \in S |-> Min(allOutbound[k].quantity, Available(allOutbound[k].id))])
QueueInvariant ==
  fpc \in {"next", "consume", "done"} =>
    /\ \A m \in DOMAIN inventoryState :
         LET q == inventoryState[m]
             off == Len(Seeded(m)) - Len(q)
         IN  /\ off >= 0
             /\ \A k \in 1..Len(q) :
                  /\ 0 < q[k].quantity_remaining
                  /\ q[k].quantity_remaining <= Seeded(m)[off + k].quantity_remaining
                  /\ q[k].unit_price = Seeded(m)[off + k].unit_price
                  /\ k > 1 => q[k] = Seeded(m)[off + k]
    /\ fpc = "consume" =>
         /\ (CurrentOut.quantity - qtyToFulfill)
              + Remaining(inventoryState, CurrentOut.product_model)
              = Available(CurrentOut.id)
         /\ ~LoopRuns => CurrentOut.quantity - qtyToFulfill
                           = Min(CurrentOut.quantity, Available(CurrentOut.id))
    /\ \A m \in Models :
         /\ TakenFrom(m) <= TotalIn(m)
         /\ TakenFrom(m) = DoneBefore(m)
                             + (IF fpc = "consume" /\ CurrentOut.product_model = m
                                THEN CurrentOut.quantity - qtyToFulfill ELSE 0)
FifoQueueInvariant ==
  /\ []QueueInvariant
  /\ [][\A m \in Models :
          (fpc = "consume" /\ m # CurrentOut.product_model)
            => Batches(inventoryState', m) = Batches(inventoryState, m)]_vars

\* C29 witness: the second outbound record's loop has ended with the head batch of its
\* product partly consumed while the other product's queue still holds its batch
FifoQueueInvariantWitness ==
  /\ fpc = "consume" /\ ~LoopRuns /\ idx = 2
  /\ \E m \in Models :
       /\ m = CurrentOut.product_model
       /\ Len(Batches(inventoryState, m)) > 0
       /\ inventoryState[m][1].quantity_remaining < Seeded(m)[1].quantity_remaining
       /\ \E n \in Models \ {m} : Len(Batches(inventoryState, n)) > 0

\* C30: the loop of an outbound record runs at most (number of batches of its product
\* + 1) times, every iteration brings the quantity still needed to zero or removes the
\* head batch, and the call returns
ReplayTerminates ==
  /\ [](fpc = "consume"
          => iterations <= Cardinality(BatchesOf(CurrentOut.product_model)) + 1)
  /\ [][iterations' # iterations /\ fpc' = "consume" /\ fpc = "consume"
          => \/ qtyToFulfill' = 0
             \/ Len(Batches(inventoryState', CurrentOut.product_model))
                  < Len(Batches(inventoryState, CurrentOut.product_model))]_vars
  /\ <>(fpc = "done")

\* C30 witness: the call returned after the loop of an outbound record ran once for
\* every batch of its product
ReplayTerminatesWitness ==
  /\ fpc = "done" /\ Len(allOutbound) > 0
  /\ iterations = MaxBatches
  /\ Cardinality(BatchesOf("X")) = MaxBatches

\* C24: once both analyses have returned, every returned record is in one customer group
\* and one of its product entries, and in one product group and one of its customer
\* entries; every group and entry holds the sums of sales_amount and cost_amount over its
\* records with profit_amount = sales_amount - cost_amount; and the sales and the cost
\* summed over the customer groups equal those summed over the product groups
SalesOver(records, K) == SumOver(K, [k \in K |-> records[k].sales_amount])
SumsOf(x, records, K) ==
  /\ x.sales_amount = SalesOver(records, K)
  /\ x.cost_amount = CostSum(records, K)
  /\ x.profit_amount = x.sales_amount - x.cost_amount
GroupTotal(groups, field) == SumOver(DOMAIN groups, [g \in DOMAIN groups |-> groups[g][field]])
AggregationConsistent ==
  analysis.called = {"customer", "product"} =>
    LET recs == processedRecords
        cust == analysis.customers
        prod == analysis.products
    IN  /\ \A k \in 1..Len(recs) :
             /\ recs[k].resolved_customer_code \in DOMAIN cust
             /\ recs[k].product_model
                  \in DOMAIN cust[recs[k].resolved_customer_code].product_details
             /\ recs[k].product_model \in DOMAIN prod
             /\ recs[k].resolved_customer_code
                  \in DOMAIN prod[recs[k].product_model].customer_details
        /\ \A c \in DOMAIN cust :
             /\ SumsOf(cust[c], recs, RowsOfCustomer(recs, c))
             /\ \A m \in DOMAIN cust[c].product_details :
                  SumsOf(cust[c].product_details[m], recs,
                         RowsOfCustomer(recs, c) \cap RowsOfProduct(recs, m))
        /\ \A m \in DOMAIN prod :
             /\ SumsOf(prod[m], recs, RowsOfProduct(recs, m))
             /\ \A c \in DOMAIN prod[m].customer_details :
                  SumsOf(prod[m].customer_details[c], recs,
                         RowsOfCustomer(recs, c) \cap RowsOfProduct(recs, m))
        /\ GroupTotal(cust, "sales_amount") = GroupTotal(prod, "sales_amount")
        /\ GroupTotal(cust, "cost_amount") = GroupTotal(prod, "cost_amount")

\* C22: divide(a, b) ends in an error and returns nothing exactly when b is zero, null
\* or undefined; otherwise it returns a value, finite whenever a and b are
ZeroInputs ==
  {[t |-> "null"], [t |-> "undefined"], [t |-> "number", v |-> 0]}
    \cup {[t |-> "string", v |-> s] : s \in {"0", "0.0", "-0"}}
PlainInputs == DivInputs \ {[t |-> "NaN"], [t |-> "Infinity"]}
DivideByZeroFails ==
  division.outcome.status # "none" =>
    /\ division.b \in ZeroInputs
         => division.outcome.status = "error" /\ "value" \notin DOMAIN division.outcome
    /\ division.b \notin ZeroInputs
         => /\ division.outcome.status = "ok"
            /\ "value" \in DOMAIN division.outcome
            /\ (division.a \in PlainInputs /\ division.b \in PlainInputs)
                 => /\ division.outcome.value.kind = "fin"
                    /\ division.outcome.value.den > 0
                    /\ (division.outcome.value.num = 0 <=> division.a \in ZeroInputs)

\* C22 witness: a call with a non-zero dividend and an undefined divisor has ended in
\* the error
DivideByZeroFailsWitness ==
  /\ division.b = [t |-> "undefined"]
  /\ division.a = [t |-> "string", v |-> "0.5"]
  /\ division.outcome.status = "error"

====
